---- MODULE Spec2Model ----
(***************************************************************************)
(* A model of the tensor core of Karesis/Snake: the Shape descriptor       *)
(* (src/src/tensor/_shape.c), the ownership-tagged Tensor                  *)
(* (src/src/tensor/_tensor_core.c) and the view engine                     *)
(* (src/src/tensor/_tensor_view.c).                                        *)
(*                                                                         *)
(* C arrays are 0-based, TLA+ sequences 1-based: axis k of the C code is   *)
(* position k+1 of a sequence here.  Axis numbers passed to shape_permute  *)
(* keep their C values (0-based).  dims are C ints and strides size_t; the *)
(* values reached within the bounds are far below 2^31, so no arithmetic   *)
(* here wraps.  safemalloc/safecalloc return NULL for a request of zero    *)
(* bytes and are otherwise taken to succeed (no out-of-memory).            *)
(***************************************************************************)
EXTENDS Integers, Sequences, FiniteSets, TLC

VARIABLES
    a,          \* Shape spec: the Shape object the caller works on
    scall,      \* Shape spec: the last call made on the Shape module
    tensors,    \* Tensor spec: every struct _tensor ever allocated, in order
    buffers,    \* Tensor spec: every data buffer ever allocated, in order
    heap,       \* Tensor spec: every Shape object allocated by a tensor operation
    tcall,      \* Tensor spec: the last call made on the tensor modules
    nodes,          \* graph engine: every struct Tensor of tensor.h ever allocated
    storages,       \* graph engine: every struct Storage ever allocated
    autograd_ctx,   \* graph engine: the global AutogradContext
    no_grad_count,  \* graph engine: the nesting counter of the no-grad scope
    error_handler,  \* graph engine: the handler report_error calls, or "NULL"
    gcall,          \* graph engine: the last call made on tensor.c / autograd.c
    modules,        \* graph engine: every Linear module of nn.c ever allocated
    disk            \* the bytes of the model file, <<>> while it does not exist

shapeVars == <<a, scall>>
tensorVars == <<tensors, buffers, heap, tcall>>
ioVars == <<modules, disk>>
gradVars == <<nodes, storages, autograd_ctx, no_grad_count, error_handler, gcall,
              ioVars>>
vars == <<a, scall, tensors, buffers, heap, tcall,
          nodes, storages, autograd_ctx, no_grad_count, error_handler, gcall,
          modules, disk>>

\* ------------------------------------------------------------------ bounds
MaxNdim == 2
MaxDim == 3
MaxTensors == 3
MaxElems == 6

DimVals == 0..MaxDim
DimSeqs == UNION {[1..n -> DimVals] : n \in 0..MaxNdim}
AxisSeqs(n) == [1..n -> (-1)..n]

\* The NULL Shape pointer: a record no real Shape equals (its two arrays differ
\* in length).
NULL == [dims |-> <<>>, strides |-> <<-1>>]

\* ------------------------------------------------------------- _shape.c
RECURSIVE Product(_)
Product(s) == IF s = <<>> THEN 1 ELSE Head(s) * Product(Tail(s))

\* shape_create's stride loop: strides[ndim-1] = 1, then right to left
\* strides[i] = strides[i+1] * dims[i+1].
RECURSIVE StrideLoop(_, _, _)
StrideLoop(dims, i, acc) ==
    IF i < 1 THEN acc
    ELSE StrideLoop(dims, i - 1, <<acc[1] * dims[i + 1]>> \o acc)

ColumnMajorStrides(dims) ==
    [i \in 1..Len(dims) |-> Product(SubSeq(dims, 1, i - 1))]

RowMajorStrides(dims) ==
    IF Len(dims) = 0 THEN <<>> ELSE StrideLoop(dims, Len(dims) - 1, <<1>>)

\* shape_create: safemalloc(sizeof(int) * 0) returns NULL, so ndim = 0 fails.
shape_create(dims) ==
    IF Len(dims) = 0 THEN NULL
    ELSE [dims |-> dims, strides |-> RowMajorStrides(dims)]

\* shape_copy: dims and strides are copied as they are, nothing is recomputed.
shape_copy(other) ==
    IF other = NULL THEN NULL
    ELSE [dims |-> other.dims, strides |-> other.strides]

shape_get_ndim(shape) == IF shape = NULL THEN 0 ELSE Len(shape.dims)

shape_get_elements_count(shape) ==
    IF shape = NULL THEN 0
    ELSE IF Len(shape.dims) = 0 THEN 1
    ELSE Product(shape.dims)

\* shape_is_contiguous: scan right to left with a running expected stride;
\* axes of size 1 are not compared.
RECURSIVE ContigLoop(_, _, _)
ContigLoop(shape, i, expected) ==
    IF i < 1 THEN TRUE
    ELSE IF shape.dims[i] # 1 /\ shape.strides[i] # expected THEN FALSE
    ELSE ContigLoop(shape, i - 1, expected * shape.dims[i])

shape_is_contiguous(shape) ==
    IF shape = NULL THEN FALSE
    ELSE IF Len(shape.dims) = 0 THEN TRUE
    ELSE ContigLoop(shape, Len(shape.dims), 1)

\* shape_permute's validation loop over axes[0..ndim-1] with the axis_seen
\* checklist: FALSE at the first out-of-range or already seen axis.
RECURSIVE AxesLoop(_, _, _, _)
AxesLoop(axes, ndim, i, seen) ==
    IF i > ndim THEN TRUE
    ELSE IF axes[i] < 0 \/ axes[i] >= ndim THEN FALSE
    ELSE IF axes[i] \in seen THEN FALSE
    ELSE AxesLoop(axes, ndim, i + 1, seen \cup {axes[i]})

AxesValid(axes, ndim) == AxesLoop(axes, ndim, 1, {})

\* safecalloc(ndim, sizeof(bool)) returns NULL when ndim = 0.
PermuteRecomputed(source_shape, axes) ==
    IF source_shape = NULL \/ Len(source_shape.dims) = 0 THEN NULL
    ELSE IF ~AxesValid(axes, Len(source_shape.dims)) THEN NULL
    ELSE shape_create([i \in 1..Len(source_shape.dims) |-> source_shape.dims[axes[i] + 1]])

shape_permute(source_shape, axes) ==
    IF source_shape = NULL \/ Len(source_shape.dims) = 0 THEN NULL
    ELSE IF ~AxesValid(axes, Len(source_shape.dims)) THEN NULL
    ELSE [dims |-> [i \in 1..Len(source_shape.dims) |-> source_shape.dims[axes[i] + 1]],
          strides |-> [i \in 1..Len(source_shape.dims) |-> source_shape.strides[axes[i] + 1]]]

\* shape_expand's compatibility loop, i = 1..source_ndim counted from the right.
RECURSIVE ExpandLoop(_, _, _)
ExpandLoop(sdims, tdims, i) ==
    IF i > Len(sdims) THEN TRUE
    ELSE IF sdims[Len(sdims) - i + 1] # tdims[Len(tdims) - i + 1]
            /\ sdims[Len(sdims) - i + 1] # 1 THEN FALSE
    ELSE ExpandLoop(sdims, tdims, i + 1)

ExpandKeepsStride(source_shape, target_shape) ==
    IF source_shape = NULL \/ target_shape = NULL THEN NULL
    ELSE IF Len(source_shape.dims) > Len(target_shape.dims) THEN NULL
    ELSE IF ~ExpandLoop(source_shape.dims, target_shape.dims, 1) THEN NULL
    ELSE LET diff == Len(target_shape.dims) - Len(source_shape.dims)
         IN [dims |-> target_shape.dims,
             strides |-> [i \in 1..Len(target_shape.dims) |->
                             IF i - diff < 1 THEN 0
                             ELSE source_shape.strides[i - diff]]]

shape_expand(source_shape, target_shape) ==
    IF source_shape = NULL \/ target_shape = NULL THEN NULL
    ELSE IF Len(source_shape.dims) > Len(target_shape.dims) THEN NULL
    ELSE IF ~ExpandLoop(source_shape.dims, target_shape.dims, 1) THEN NULL
    ELSE LET diff == Len(target_shape.dims) - Len(source_shape.dims)
         IN [dims |-> target_shape.dims,
             strides |-> [i \in 1..Len(target_shape.dims) |->
                             IF i - diff < 1 \/ source_shape.dims[i - diff] = 1 THEN 0
                             ELSE source_shape.strides[i - diff]]]

\* --------------------------------------------------- the Shape module's calls
NoCall == [op |-> "none", src |-> NULL, dims |-> <<>>, axes |-> <<>>,
           target |-> NULL, ret |-> NULL]

\* An address: an element offset from the start of a data buffer.  NoPtr is
\* the NULL pointer.
NoPtr == [base |-> 0, off |-> 0]

\* err counts the calls of report_error a call made and exited says that the
\* process was ended by it; printed says that a message went to stderr.
TNoCall == [op |-> "none", t |-> 0, shape |-> NULL, axes |-> <<>>, ret |-> 0,
            oob |-> FALSE, crashed |-> FALSE, coords |-> <<>>, ptr |-> NoPtr,
            err |-> 0, exited |-> FALSE, printed |-> FALSE]

\* The caller holds one Shape, a.  Each call below is made when the result of
\* the previous one has been taken up (scall.op = "none"); it records its
\* arguments and result in scall and leaves the argument objects alone: the
\* code reads them through const pointers and never writes to them.
ShapeCreate(dims) ==
    /\ scall.op = "none"
    /\ scall' = [NoCall EXCEPT !.op = "create", !.src = a, !.dims = dims,
                               !.ret = shape_create(dims)]
    /\ UNCHANGED <<a, tensorVars, gradVars>>

ShapePermute(axes) ==
    /\ scall.op = "none"
    /\ a # NULL
    /\ scall' = [NoCall EXCEPT !.op = "permute", !.src = a, !.axes = axes,
                               !.ret = shape_permute(a, axes)]
    /\ UNCHANGED <<a, tensorVars, gradVars>>

\* The target is a Shape made by shape_create(tdims).
ShapeExpand(tdims) ==
    /\ scall.op = "none"
    /\ a # NULL
    /\ shape_create(tdims) # NULL
    /\ scall' = [NoCall EXCEPT !.op = "expand", !.src = a,
                               !.target = shape_create(tdims),
                               !.ret = shape_expand(a, shape_create(tdims))]
    /\ UNCHANGED <<a, tensorVars, gradVars>>

\* The caller takes up the result: a returned Shape replaces a (the old one is
\* released with shape_free), a NULL result leaves a as it was.
ShapeAdopt ==
    /\ scall.op # "none"
    /\ a' = IF scall.ret = NULL THEN a ELSE scall.ret
    /\ scall' = NoCall
    /\ UNCHANGED <<tensorVars, gradVars>>

\* No call in progress on tensor.c / autograd.c.
GNoCall == [op |-> "none", t |-> 0, u |-> 0, ret |-> 0, err |-> 0,
            exited |-> FALSE, crashed |-> FALSE, ub |-> FALSE, scratch |-> <<>>]

\* The static initializers of autograd.c and utils.c; nothing allocated yet.
GradInit ==
    /\ nodes = <<>>
    /\ storages = <<>>
    /\ autograd_ctx = [is_training |-> 1, retain_graph |-> 0]
    /\ no_grad_count = 0
    /\ error_handler = "NULL"
    /\ gcall = GNoCall
    /\ modules = <<>>
    /\ disk = <<>>

ShapeInit ==
    /\ GradInit
    /\ a = NULL
    /\ scall = NoCall
    /\ tensors = <<>>
    /\ buffers = <<>>
    /\ heap = <<>>
    /\ tcall = TNoCall

ShapeNext ==
    \/ \E dims \in DimSeqs : ShapeCreate(dims)
    \/ \E axes \in AxisSeqs(shape_get_ndim(a)) : ShapePermute(axes)
    \/ \E tdims \in DimSeqs : ShapeExpand(tdims)
    \/ ShapeAdopt

ShapeSpec == ShapeInit /\ [][ShapeNext]_vars

\* ------------------------------------------------------ claims on the Shape
\* C6: for every dims sequence with ndim >= 1, shape_create yields
\* strides[ndim-1] = 1 and strides[i] = strides[i+1] * dims[i+1] for all
\* i < ndim-1, and the fresh shape is contiguous.
C6_CreateRowMajor ==
    (scall.op = "create" /\ Len(scall.dims) >= 1) =>
        LET r == scall.ret
            n == Len(scall.dims)
        IN /\ r # NULL
           /\ r.dims = scall.dims
           /\ Len(r.strides) = n
           /\ r.strides[n] = 1
           /\ \A i \in 1..(n - 1) : r.strides[i] = r.strides[i + 1] * r.dims[i + 1]
           /\ shape_is_contiguous(r)

C6_Witness ==
    /\ scall.op = "create"
    /\ scall.dims = <<2, 3>>
    /\ scall.ret.strides = <<3, 1>>
    /\ shape_is_contiguous(scall.ret)
    /\ shape_get_elements_count(scall.ret) = 6

IsPermutation(axes, n) == {axes[i] : i \in 1..n} = 0..(n - 1)

\* C7: shape_permute(s, axes) succeeds exactly when axes is a permutation of
\* 0..ndim-1; on success result.dims[i] = s.dims[axes[i]] and
\* result.strides[i] = s.strides[axes[i]] for every i; on failure it returns
\* NULL; s is unchanged either way.
C7_Permute ==
    scall.op = "permute" =>
        LET s == scall.src
            n == Len(scall.src.dims)
            r == scall.ret
        IN /\ (r # NULL) <=> IsPermutation(scall.axes, n)
           /\ r # NULL =>
                 /\ Len(r.dims) = n /\ Len(r.strides) = n
                 /\ \A i \in 1..n : /\ r.dims[i] = s.dims[scall.axes[i] + 1]
                                     /\ r.strides[i] = s.strides[scall.axes[i] + 1]
           /\ a = s

C7_Witness ==
    /\ scall.op = "permute"
    /\ scall.src = [dims |-> <<2, 3>>, strides |-> <<3, 1>>]
    /\ scall.axes = <<1, 0>>
    /\ scall.ret = [dims |-> <<3, 2>>, strides |-> <<1, 3>>]
    /\ ~shape_is_contiguous(scall.ret)

\* Right-aligned broadcast compatibility of source dims with target dims.
Broadcastable(sdims, tdims) ==
    /\ Len(sdims) <= Len(tdims)
    /\ \A k \in 1..Len(sdims) :
          \/ sdims[k] = tdims[k + Len(tdims) - Len(sdims)]
          \/ sdims[k] = 1

\* C8: shape_expand(src, target) succeeds exactly when src.ndim <=
\* target.ndim and, right-aligned, every src dim equals the target dim or is
\* 1; on success the result has the target's dims, stride 0 on every axis
\* added on the left and on every axis whose src size is 1, and src's stride
\* on every other axis; otherwise it returns NULL; src is unchanged.
C8_Expand ==
    scall.op = "expand" =>
        LET s == scall.src
            t == scall.target
            r == scall.ret
            diff == Len(scall.target.dims) - Len(scall.src.dims)
        IN /\ (r # NULL) <=> Broadcastable(s.dims, t.dims)
           /\ r # NULL =>
                 /\ r.dims = t.dims
                 /\ Len(r.strides) = Len(t.dims)
                 /\ \A i \in 1..Len(t.dims) :
                       r.strides[i] = IF i <= diff THEN 0
                                      ELSE IF s.dims[i - diff] = 1 THEN 0
                                      ELSE s.strides[i - diff]
           /\ a = s

C8_Witness ==
    /\ scall.op = "expand"
    /\ scall.src = [dims |-> <<1, 3>>, strides |-> <<3, 1>>]
    /\ scall.target.dims = <<3, 3>>
    /\ scall.ret = [dims |-> <<3, 3>>, strides |-> <<0, 1>>]

\* ----------------------------------------------------------------------
\* _tensor_core.c and _tensor_view.c
\*
\* A pointer to a struct _tensor is its position in tensors, a data pointer
\* the position of the buffer in buffers, a Shape pointer the position of the
\* Shape object in heap; 0 is the NULL tensor.  Buffers hold elements, not
\* bytes: every byte offset of the code is an element offset times the item
\* size of the tensor's dtype, which a view inherits from its source.
\* The fields live, op and src of a tensor, freed of a buffer and freed and
\* by of a Shape object are history: whether free() was called on it, which
\* call made it and from which tensor.
\* ----------------------------------------------------------------------

\* Dims the caller builds tensors from, and the Shape objects it passes:
\* made by shape_create, or by shape_permute / shape_expand from those.
TDims == {d \in DimSeqs : /\ Len(d) >= 1
                          /\ \A i \in 1..Len(d) : d[i] >= 1
                          /\ Product(d) <= MaxElems}
CreatedShapes == {shape_create(d) : d \in TDims}
PermutedShapes ==
    UNION {{shape_permute(s, ax) : ax \in AxisSeqs(Len(s.dims))} : s \in CreatedShapes} \ {NULL}
ExpandedShapes ==
    {x \in {shape_expand(s, t) : s \in CreatedShapes, t \in CreatedShapes} :
        x # NULL /\ Product(x.dims) <= MaxElems}
CallerShapes == CreatedShapes \cup PermutedShapes \cup ExpandedShapes

\* The caller's data for tensor_from_data: 1, 2, ..., n.
Iota(n) == [i \in 1..n |-> i]
Zeros(n) == [i \in 1..n |-> 0]

\* What a read past the end of a buffer may deliver.
Garbage == {-1, -2}

ShapeOf(t) == heap[tensors[t].shape].shape
BufOf(t) == buffers[tensors[t].data]
tensor_get_elements_count(t) == shape_get_elements_count(ShapeOf(t))
tensor_is_contiguous(t) == shape_is_contiguous(ShapeOf(t))

\* offset_in_elements += coords[i] * strides[i], for i = 0..ndim-1.
RECURSIVE Offset(_, _)
Offset(coords, strides) ==
    IF coords = <<>> THEN 0
    ELSE Head(coords) * Head(strides) + Offset(Tail(coords), Tail(strides))

\* The element at an element offset of a buffer; past its end, g.
Slot(mem, off, g) == IF off < Len(mem) THEN mem[off + 1] ELSE g

\* The struct filled in by _tensor_create_view.
ViewOwning(data, shapeptr, op, src) ==
    [data |-> data, shape |-> shapeptr, owns |-> TRUE, live |-> TRUE,
     op |-> op, src |-> src]

tensor_create_view(data, shapeptr, op, src) ==
    [data |-> data, shape |-> shapeptr, owns |-> FALSE, live |-> TRUE,
     op |-> op, src |-> src]

\* tensor_create's allocations: a buffer, a Shape copied from the argument
\* (strides included) and the struct, which owns the buffer.
NewOwner(shape, mem, op, src) ==
    /\ buffers' = Append(buffers, [mem |-> mem, freed |-> 0])
    /\ heap' = Append(heap, [shape |-> shape_copy(shape), freed |-> 0,
                             by |-> Len(tensors) + 1])
    /\ tensors' = Append(tensors, [data |-> Len(buffers) + 1, shape |-> Len(heap) + 1,
                                   owns |-> TRUE, live |-> TRUE, op |-> op, src |-> src])

Idle == tcall.op = "none" /\ Len(tensors) < MaxTensors

\* A tensor the caller may pass: not freed, and its buffer not freed.
Usable(t) == tensors[t].live /\ BufOf(t).freed = 0

\* tensor_create(shape, dtype): safecalloc fails on zero elements.
tensor_create(shape) ==
    /\ Idle
    /\ IF shape_get_elements_count(shape) = 0
       THEN /\ tcall' = [TNoCall EXCEPT !.op = "create", !.shape = shape]
            /\ UNCHANGED <<tensors, buffers, heap>>
       ELSE /\ NewOwner(shape, Zeros(shape_get_elements_count(shape)), "create", 0)
            /\ tcall' = [TNoCall EXCEPT !.op = "create", !.shape = shape,
                                        !.ret = Len(tensors) + 1]
    /\ UNCHANGED <<shapeVars, gradVars>>

\* tensor_from_data(data, shape, dtype) with data holding 1..n.
tensor_from_data(shape) ==
    /\ Idle
    /\ IF shape_get_elements_count(shape) = 0
       THEN /\ tcall' = [TNoCall EXCEPT !.op = "from_data", !.shape = shape]
            /\ UNCHANGED <<tensors, buffers, heap>>
       ELSE /\ NewOwner(shape, Iota(shape_get_elements_count(shape)), "from_data", 0)
            /\ tcall' = [TNoCall EXCEPT !.op = "from_data", !.shape = shape,
                                        !.ret = Len(tensors) + 1]
    /\ UNCHANGED <<shapeVars, gradVars>>

\* tensor_free(tensor): free(data) if _owns_data, shape_free, free(tensor).
\* It returns nothing, so it leaves no call record.
FreeAlways(t) ==
    /\ tcall.op = "none"
    /\ tensors[t].live
    /\ buffers' = [buffers EXCEPT ![tensors[t].data].freed = @ + 1]
    /\ heap' = [heap EXCEPT ![tensors[t].shape].freed = @ + 1]
    /\ tensors' = [tensors EXCEPT ![t].live = FALSE]
    /\ UNCHANGED <<tcall, shapeVars, gradVars>>

tensor_free(t) ==
    /\ tcall.op = "none"
    /\ tensors[t].live
    /\ buffers' = IF tensors[t].owns
                  THEN [buffers EXCEPT ![tensors[t].data].freed = @ + 1]
                  ELSE buffers
    /\ heap' = [heap EXCEPT ![tensors[t].shape].freed = @ + 1]
    /\ tensors' = [tensors EXCEPT ![t].live = FALSE]
    /\ UNCHANGED <<tcall, shapeVars, gradVars>>

\* The memcpy of tensor_copy, and of the contiguous branch of
\* tensor_contiguous: count elements from the start of other's buffer.
\* Reading past the end of the buffer is undefined: the call may crash or
\* deliver anything in those slots.
CopyInto(other, op) ==
    LET count == tensor_get_elements_count(other)
        past == count > Len(BufOf(other).mem)
    IN IF count = 0
       THEN /\ tcall' = [TNoCall EXCEPT !.op = op, !.t = other]
            /\ UNCHANGED <<tensors, buffers, heap>>
       ELSE \/ /\ past
               /\ tcall' = [TNoCall EXCEPT !.op = op, !.t = other, !.oob = TRUE,
                                           !.crashed = TRUE]
               /\ UNCHANGED <<tensors, buffers, heap>>
            \/ \E g \in (IF past THEN Garbage ELSE {0}) :
                 /\ NewOwner(ShapeOf(other),
                             [i \in 1..count |-> Slot(BufOf(other).mem, i - 1, g)],
                             op, other)
                 /\ tcall' = [TNoCall EXCEPT !.op = op, !.t = other, !.oob = past,
                                             !.ret = Len(tensors) + 1]

tensor_copy(other) ==
    /\ Idle
    /\ Usable(other)
    /\ CopyInto(other, "copy")
    /\ UNCHANGED <<shapeVars, gradVars>>

\* The element counts are not compared.
ReshapeAnyCount(t, new_shape) ==
    /\ Idle
    /\ Usable(t)
    /\ IF ~tensor_is_contiguous(t)
       THEN /\ tcall' = [TNoCall EXCEPT !.op = "reshape", !.t = t, !.shape = new_shape,
                                        !.printed = TRUE]
            /\ UNCHANGED <<tensors, buffers, heap>>
       ELSE /\ heap' = Append(heap, [shape |-> shape_copy(new_shape), freed |-> 0,
                                     by |-> Len(tensors) + 1])
            /\ tensors' = Append(tensors,
                 tensor_create_view(tensors[t].data, Len(heap) + 1, "reshape", t))
            /\ tcall' = [TNoCall EXCEPT !.op = "reshape", !.t = t, !.shape = new_shape,
                                        !.ret = Len(tensors) + 1]
            /\ UNCHANGED buffers
    /\ UNCHANGED <<shapeVars, gradVars>>

\* tensor_reshape(tensor, new_shape): the view's Shape is shape_copy(new_shape).
tensor_reshape(t, new_shape) ==
    /\ Idle
    /\ Usable(t)
    /\ IF shape_get_elements_count(ShapeOf(t)) # shape_get_elements_count(new_shape)
          \/ ~tensor_is_contiguous(t)
       THEN /\ tcall' = [TNoCall EXCEPT !.op = "reshape", !.t = t, !.shape = new_shape,
                                        !.printed = TRUE]
            /\ UNCHANGED <<tensors, buffers, heap>>
       ELSE /\ heap' = Append(heap, [shape |-> shape_copy(new_shape), freed |-> 0,
                                     by |-> Len(tensors) + 1])
            /\ tensors' = Append(tensors,
                 tensor_create_view(tensors[t].data, Len(heap) + 1, "reshape", t))
            /\ tcall' = [TNoCall EXCEPT !.op = "reshape", !.t = t, !.shape = new_shape,
                                        !.ret = Len(tensors) + 1]
            /\ UNCHANGED buffers
    /\ UNCHANGED <<shapeVars, gradVars>>

\* What tensor_permute and tensor_expand do with the Shape computed for the
\* view: it is passed to _tensor_create_view, which stores a shape_copy of it;
\* the computed Shape itself is not released and not stored.
ViewOfComputedShape(t, computed, op) ==
    /\ heap' = heap \o <<[shape |-> computed, freed |-> 0, by |-> Len(tensors) + 1],
                         [shape |-> shape_copy(computed), freed |-> 0,
                          by |-> Len(tensors) + 1]>>
    /\ tensors' = Append(tensors,
         tensor_create_view(tensors[t].data, Len(heap) + 2, op, t))
    /\ UNCHANGED buffers

\* tensor_permute(t, axes)
tensor_permute(t, axes) ==
    /\ Idle
    /\ Usable(t)
    /\ IF shape_permute(ShapeOf(t), axes) = NULL
       THEN /\ tcall' = [TNoCall EXCEPT !.op = "permute", !.t = t, !.axes = axes,
                                        !.printed = TRUE]
            /\ UNCHANGED <<tensors, buffers, heap>>
       ELSE /\ ViewOfComputedShape(t, shape_permute(ShapeOf(t), axes), "permute")
            /\ tcall' = [TNoCall EXCEPT !.op = "permute", !.t = t, !.axes = axes,
                                        !.ret = Len(tensors) + 1]
    /\ UNCHANGED <<shapeVars, gradVars>>

\* tensor_expand(t, target_shape)
tensor_expand(t, target_shape) ==
    /\ Idle
    /\ Usable(t)
    /\ IF shape_expand(ShapeOf(t), target_shape) = NULL
       THEN /\ tcall' = [TNoCall EXCEPT !.op = "expand", !.t = t, !.shape = target_shape,
                                        !.printed = TRUE]
            /\ UNCHANGED <<tensors, buffers, heap>>
       ELSE /\ ViewOfComputedShape(t, shape_expand(ShapeOf(t), target_shape), "expand")
            /\ tcall' = [TNoCall EXCEPT !.op = "expand", !.t = t, !.shape = target_shape,
                                        !.ret = Len(tensors) + 1]
    /\ UNCHANGED <<shapeVars, gradVars>>

\* The odometer of tensor_contiguous: increment the last coordinate, carry
\* leftward on overflow.
RECURSIVE Carry(_, _, _)
Carry(coords, dims, d) ==
    IF d < 1 THEN coords
    ELSE IF coords[d] + 1 < dims[d] THEN [coords EXCEPT ![d] = @ + 1]
    ELSE Carry([coords EXCEPT ![d] = 0], dims, d - 1)

\* The copy loop of tensor_contiguous, i = 0..num_elements-1: dest[i] is the
\* source element at the offset the source strides give the coordinates.
RECURSIVE OdometerLoop(_, _, _, _, _, _)
OdometerLoop(i, coords, shape, mem, dest, g) ==
    IF i >= Len(dest) THEN dest
    ELSE OdometerLoop(i + 1, Carry(coords, shape.dims, Len(shape.dims)), shape, mem,
                      [dest EXCEPT ![i + 1] = Slot(mem, Offset(coords, shape.strides), g)],
                      g)

Coords(dims) ==
    {c \in [1..Len(dims) -> 0..MaxDim] : \A i \in 1..Len(dims) : c[i] < dims[i]}

\* tensor_contiguous(tensor): tensor_copy when already contiguous; otherwise
\* tensor_create(shape, dtype) with the tensor's own Shape, then the copy loop.
tensor_contiguous(t) ==
    /\ Idle
    /\ Usable(t)
    /\ IF tensor_is_contiguous(t)
       THEN CopyInto(t, "contiguous")
       ELSE LET count == tensor_get_elements_count(t)
                past == \E c \in Coords(ShapeOf(t).dims) :
                           Offset(c, ShapeOf(t).strides) >= Len(BufOf(t).mem)
            IN IF count = 0
               THEN /\ tcall' = [TNoCall EXCEPT !.op = "contiguous", !.t = t]
                    /\ UNCHANGED <<tensors, buffers, heap>>
               ELSE \/ /\ past
                       /\ tcall' = [TNoCall EXCEPT !.op = "contiguous", !.t = t,
                                                   !.oob = TRUE, !.crashed = TRUE]
                       /\ UNCHANGED <<tensors, buffers, heap>>
                    \/ \E g \in (IF past THEN Garbage ELSE {0}) :
                         /\ NewOwner(ShapeOf(t),
                                     OdometerLoop(0, [i \in 1..Len(ShapeOf(t).dims) |-> 0],
                                                  ShapeOf(t), BufOf(t).mem, Zeros(count), g),
                                     "contiguous", t)
                         /\ tcall' = [TNoCall EXCEPT !.op = "contiguous", !.t = t,
                                                     !.oob = past, !.ret = Len(tensors) + 1]
    /\ UNCHANGED <<shapeVars, gradVars>>

\* The coordinates a caller may pass for a tensor of n axes, in and out of
\* range.
CoordSeqs(n) == [1..n -> (-1)..MaxDim]

\* tensor_get_element_ptr(source_tensor, coords): the bounds check on coords
\* is commented out in the source, so the address is computed for any coords.
\* coords[i] * strides[i] is computed in size_t and wraps for a negative
\* coordinate; added to the base pointer it wraps back, which is the signed
\* offset kept here.
tensor_get_element_ptr(t, coords) ==
    /\ tcall.op = "none"
    /\ Usable(t)
    /\ tcall' = [TNoCall EXCEPT !.op = "element_ptr", !.t = t, !.coords = coords,
                                !.ptr = [base |-> tensors[t].data,
                                         off |-> Offset(coords, ShapeOf(t).strides)]]
    /\ UNCHANGED <<tensors, buffers, heap, shapeVars, gradVars>>

\* The caller takes up the result of the last call.  After a crash there is
\* no caller left.
TensorReturn ==
    /\ tcall.op # "none"
    /\ ~tcall.crashed
    /\ tcall' = TNoCall
    /\ UNCHANGED <<tensors, buffers, heap, shapeVars, gradVars>>

Init == ShapeInit

Next ==
    \/ \E s \in CreatedShapes : tensor_create(s)
    \/ \E s \in CreatedShapes \cup PermutedShapes : tensor_from_data(s)
    \/ \E t \in 1..Len(tensors) : tensor_free(t)
    \/ \E t \in 1..Len(tensors) : tensor_copy(t)
    \/ \E t \in 1..Len(tensors) : \E s \in CallerShapes : tensor_reshape(t, s)
    \/ \E t \in 1..Len(tensors) :
          \E axes \in AxisSeqs(Len(ShapeOf(t).dims)) : tensor_permute(t, axes)
    \/ \E t \in 1..Len(tensors) : \E s \in CreatedShapes : tensor_expand(t, s)
    \/ \E t \in 1..Len(tensors) : tensor_contiguous(t)
    \/ TensorReturn

Spec == Init /\ [][Next]_vars

\* Element access: tensors and views are built and tensor_get_element_ptr is
\* called on them.
PtrNext ==
    \/ \E s \in CreatedShapes : tensor_from_data(s)
    \/ \E t \in 1..Len(tensors) :
          \E axes \in AxisSeqs(Len(ShapeOf(t).dims)) : tensor_permute(t, axes)
    \/ \E t \in 1..Len(tensors) : \E s \in CreatedShapes : tensor_expand(t, s)
    \/ \E t \in 1..Len(tensors) :
          \E coords \in CoordSeqs(Len(ShapeOf(t).dims)) : tensor_get_element_ptr(t, coords)
    \/ TensorReturn

PtrSpec == Init /\ [][PtrNext]_vars

\* Views of one owning tensor: it is created from a shape_create'd Shape,
\* views of it and of its views are made by reshape, permute and expand, and
\* elements are addressed.
ViewNext ==
    \/ /\ Len(tensors) = 0
       /\ \E s \in CreatedShapes : tensor_from_data(s)
    \/ \E t \in 1..Len(tensors) : \E s \in CallerShapes : tensor_reshape(t, s)
    \/ \E t \in 1..Len(tensors) :
          \E axes \in AxisSeqs(Len(ShapeOf(t).dims)) : tensor_permute(t, axes)
    \/ \E t \in 1..Len(tensors) : \E s \in CreatedShapes : tensor_expand(t, s)
    \/ \E t \in 1..Len(tensors) :
          \E coords \in CoordSeqs(Len(ShapeOf(t).dims)) : tensor_get_element_ptr(t, coords)
    \/ TensorReturn

ViewSpec == Init /\ [][ViewNext]_vars

\* ----------------------------------------------------- claims on tensors
ViewOps == {"reshape", "permute", "expand"}
TensorIds == 1..Len(tensors)

\* The element of tensor t at logical coordinates c, read through t's own
\* strides as tensor_get_element_ptr computes the address; -99 marks an
\* address outside the buffer.
Elem(t, c) == Slot(BufOf(t).mem, Offset(c, ShapeOf(t).strides), -99)

\* The coordinates of the k-th element (k from 0) in row-major order of dims.
Unravel(k, dims) ==
    [i \in 1..Len(dims) |-> (k \div RowMajorStrides(dims)[i]) % dims[i]]

\* The logical elements of t in row-major order of its dims.
Flat(t) ==
    [k \in 1..tensor_get_elements_count(t) |-> Elem(t, Unravel(k - 1, ShapeOf(t).dims))]

\* C1: every data buffer is owned by exactly one tensor, which is live as
\* long as the buffer is not released, and every tensor made by reshape,
\* permute or expand (also from a view) has owns_data = false and the data
\* pointer of its source.
C1_Ownership ==
    /\ \A d \in 1..Len(buffers) :
          /\ Cardinality({t \in TensorIds : tensors[t].data = d /\ tensors[t].owns}) = 1
          /\ buffers[d].freed = 0 =>
                Cardinality({t \in TensorIds : /\ tensors[t].data = d
                                               /\ tensors[t].owns
                                               /\ tensors[t].live}) = 1
    /\ \A t \in TensorIds :
          IF tensors[t].op \in ViewOps
          THEN /\ ~tensors[t].owns
               /\ tensors[t].src \in 1..(t - 1)
               /\ tensors[t].data = tensors[tensors[t].src].data
          ELSE tensors[t].owns

C1_Witness ==
    /\ Len(tensors) = 3
    /\ \A t \in TensorIds : tensors[t].live
    /\ tensors[1].op = "from_data"
    /\ tensors[2].op = "permute" /\ tensors[2].src = 1
    /\ tensors[3].op = "expand" /\ tensors[3].src = 2
    /\ tensors[3].data = 1 /\ ~tensors[3].owns

\* C2: tensor_free releases the data buffer if and only if the tensor owns
\* it and always releases the tensor's own Shape: at any point a buffer has
\* been released once if its owner has been freed and not at all otherwise,
\* however many views of it have been freed, and a tensor's Shape has been
\* released once if the tensor has been freed and not at all otherwise.
C2_Free ==
    /\ \A t \in TensorIds :
          heap[tensors[t].shape].freed = IF tensors[t].live THEN 0 ELSE 1
    /\ \A d \in 1..Len(buffers) :
          buffers[d].freed =
             IF \E t \in TensorIds : /\ tensors[t].data = d
                                     /\ tensors[t].owns
                                     /\ ~tensors[t].live
             THEN 1 ELSE 0

C2_Witness ==
    /\ Len(tensors) = 3
    /\ tensors[1].owns
    /\ tensors[2].op \in ViewOps /\ tensors[2].data = 1
    /\ tensors[3].op \in ViewOps /\ tensors[3].data = 1
    /\ \A t \in TensorIds : ~tensors[t].live
    /\ buffers[1].freed = 1

\* C3: tensor_contiguous(t) returns a new owning tensor with t's dims whose
\* shape is contiguous with canonical row-major strides and whose element at
\* every logical coordinate, read through the result's own strides, equals
\* t's element at that coordinate.  (The strides are compared on the axes of
\* size other than 1; the stride of an axis of size 1 addresses nothing.)
C3_Contiguous ==
    tcall.op = "contiguous" =>
        /\ ~tcall.crashed /\ ~tcall.oob
        /\ tcall.ret # 0
        /\ tensors[tcall.ret].owns
        /\ tensors[tcall.ret].data # tensors[tcall.t].data
        /\ ShapeOf(tcall.ret).dims = ShapeOf(tcall.t).dims
        /\ shape_is_contiguous(ShapeOf(tcall.ret))
        /\ \A i \in 1..Len(ShapeOf(tcall.t).dims) :
              ShapeOf(tcall.t).dims[i] # 1 =>
                 ShapeOf(tcall.ret).strides[i] = RowMajorStrides(ShapeOf(tcall.t).dims)[i]
        /\ \A c \in Coords(ShapeOf(tcall.t).dims) : Elem(tcall.ret, c) = Elem(tcall.t, c)

\* C4: tensor_reshape of a non-contiguous tensor fails; tensor_reshape of the
\* result of tensor_contiguous on a non-contiguous tensor, with a target shape
\* of equal element count, succeeds and the view holds the original logical
\* elements in row-major order.
C4_ReshapeAfterContiguous ==
    tcall.op = "reshape" =>
        /\ ~tensor_is_contiguous(tcall.t) => tcall.ret = 0
        /\ ( /\ tensors[tcall.t].op = "contiguous"
             /\ ~tensor_is_contiguous(tensors[tcall.t].src)
             /\ Usable(tensors[tcall.t].src)
             /\ tcall.shape \in CreatedShapes
             /\ shape_get_elements_count(tcall.shape) = tensor_get_elements_count(tcall.t) )
           => /\ tcall.ret # 0
              /\ ShapeOf(tcall.ret).dims = tcall.shape.dims
              /\ Flat(tcall.ret) = Flat(tensors[tcall.t].src)

\* C5: tensor_reshape(t, new_shape) succeeds exactly when the element counts
\* agree and t is contiguous; on success the result is a non-owning view on
\* t's buffer with new_shape's dims and the canonical row-major strides of
\* those dims, whatever strides new_shape carries.  (The strides are compared
\* on the axes of size other than 1; the stride of an axis of size 1 addresses
\* nothing.)
C5_Reshape ==
    tcall.op = "reshape" =>
        /\ (tcall.ret # 0) <=>
              /\ tensor_get_elements_count(tcall.t) = shape_get_elements_count(tcall.shape)
              /\ tensor_is_contiguous(tcall.t)
        /\ tcall.ret # 0 =>
              /\ ~tensors[tcall.ret].owns
              /\ tensors[tcall.ret].data = tensors[tcall.t].data
              /\ ShapeOf(tcall.ret).dims = tcall.shape.dims
              /\ \A i \in 1..Len(tcall.shape.dims) :
                    tcall.shape.dims[i] # 1 =>
                       ShapeOf(tcall.ret).strides[i] = RowMajorStrides(tcall.shape.dims)[i]

\* C9: tensor_copy(t) returns an owning tensor with a buffer of its own whose
\* element at every logical coordinate equals t's, for every t including
\* permuted and expanded views, and it reads only slots inside t's buffer.
C9_Copy ==
    tcall.op = "copy" =>
        /\ ~tcall.oob /\ ~tcall.crashed
        /\ tcall.ret # 0
        /\ tensors[tcall.ret].owns
        /\ \A t \in TensorIds \ {tcall.ret} : tensors[t].data # tensors[tcall.ret].data
        /\ ShapeOf(tcall.ret).dims = ShapeOf(tcall.t).dims
        /\ \A c \in Coords(ShapeOf(tcall.t).dims) : Elem(tcall.ret, c) = Elem(tcall.t, c)

\* C10: once a view made by tensor_permute or tensor_expand has been released
\* with tensor_free, every Shape allocated during the view operation has been
\* released exactly once.
C10_ViewShapesReleased ==
    \A t \in TensorIds :
        (tensors[t].op \in {"permute", "expand"} /\ ~tensors[t].live) =>
            \A j \in 1..Len(heap) : heap[j].by = t => heap[j].freed = 1

\* C11: tensor_get_element_ptr(t, coords) returns NULL when some coords[i] is
\* outside 0 <= coords[i] < dim(t, i), and otherwise the address of the element
\* at offset sum of coords[i] * strides[i] from the base of t's data.
InRangeCoords(t, coords) ==
    \A i \in 1..Len(coords) : 0 <= coords[i] /\ coords[i] < ShapeOf(t).dims[i]

C11_ElementPtr ==
    tcall.op = "element_ptr" =>
        IF InRangeCoords(tcall.t, tcall.coords)
        THEN tcall.ptr = [base |-> tensors[tcall.t].data,
                          off |-> Offset(tcall.coords, ShapeOf(tcall.t).strides)]
        ELSE tcall.ptr = NoPtr

\* ------------------------------------------------------------------------
\* The graph-aware tensor of include/tensor.h (src/src/tensor.c) and the
\* gradient engine (src/src/autograd.c).  A Tensor* is a position in nodes
\* (0 is NULL), a Storage* a position in storages.  float values are modelled
\* by integers: the values reached stay small, where float arithmetic on
\* integers is exact.  A NULL grad or parents pointer is the empty sequence
\* (an allocated one has at least one element).  malloc is taken to succeed.
\* tensor.c names tensor_create, tensor_reshape and tensor_free as the tensor
\* core does; they carry the prefix legacy_ here.
MaxNodes == 3
MaxLElems == 2
MaxVal == 2
MaxOperands == 2
MaxDepth == 25

\* The dims a caller passes to tensor_create: positive sizes; the empty
\* sequence stands for num_dims = 0.
LDims == {d \in DimSeqs : /\ \A k \in 1..Len(d) : d[k] >= 1
                          /\ Product(d) <= MaxLElems}

\* The caller's data array for n elements: k, k+1, ...; <<>> is data = NULL
\* (the storage is then zeroed).
Ramp(n, k) == [j \in 1..n |-> k + j - 1]
LData(n) == {<<>>, Ramp(n, 1)}

InRange(v) == \A j \in 1..Len(v) : -MaxVal <= v[j] /\ v[j] <= MaxVal

\* report_error(msg), recorded in the call record c: the installed handler is
\* called and returns; without one the message is printed and exit(1) ends the
\* process.
report_error(c) == [c EXCEPT !.err = @ + 1, !.exited = (error_handler = "NULL")]

\* storage_create(size, data): calloc'ed when data is NULL, else a copy.
storage_create(size, data) ==
    [data |-> IF data = <<>> THEN Zeros(size) ELSE data,
     size |-> size, ref_count |-> 1, is_allocated |-> 1, freed |-> FALSE]

\* The data and the struct are freed whatever the count.
StorageFreeAlways(st) ==
    [st EXCEPT !.ref_count = @ - 1, !.freed = TRUE]

\* storage_free(storage): the count drops, and at 0 data and struct are freed.
storage_free(st) ==
    [st EXCEPT !.ref_count = @ - 1, !.freed = (st.ref_count - 1 <= 0)]

\* The struct tensor_create fills in, on storage number st; freed records
\* that tensor_free has released the struct.
NewTensor(dims, st) ==
    [dims |-> dims, strides |-> RowMajorStrides(dims), storage |-> st,
     requires_grad |-> 0, grad |-> <<>>, is_leaf |-> 1,
     parents |-> <<>>, num_parents |-> 0, op_name |-> "NULL", freed |-> FALSE]

StorageOf(t) == storages[nodes[t].storage]
DataOf(t) == StorageOf(t).data
SizeOf(t) == StorageOf(t).size

GIdle == gcall.op = "none"
GCall(op, t, u) == [GNoCall EXCEPT !.op = op, !.t = t, !.u = u]
GradFrame == UNCHANGED <<shapeVars, tensorVars, ioVars>>
CtxFrame == UNCHANGED <<autograd_ctx, no_grad_count, error_handler>>

\* tensor_create(num_dims, dims, data) of tensor.c.
legacy_tensor_create(dims, data) ==
    /\ GIdle
    /\ IF Len(dims) <= 0
       THEN /\ gcall' = report_error(GCall("create", 0, 0))
            /\ UNCHANGED <<nodes, storages>>
       ELSE /\ Len(nodes) < MaxNodes
            /\ storages' = Append(storages, storage_create(Product(dims), data))
            /\ nodes' = Append(nodes, NewTensor(dims, Len(storages) + 1))
            /\ gcall' = [GCall("create", 0, 0) EXCEPT !.ret = Len(nodes) + 1]
    /\ CtxFrame /\ GradFrame

\* set_requires_grad(tensor, requires_grad) of tensor.c (the one of autograd.c
\* leaves is_leaf alone).
set_requires_grad(t, flag) ==
    /\ GIdle
    /\ nodes' = [nodes EXCEPT ![t].requires_grad = flag,
                              ![t].is_leaf = IF flag = 0 THEN 1 ELSE 0]
    /\ UNCHANGED <<storages, gcall>>
    /\ CtxFrame /\ GradFrame

\* set_error_handler(handler) of utils.c.
set_error_handler(h) ==
    /\ GIdle
    /\ error_handler' = h
    /\ UNCHANGED <<nodes, storages, autograd_ctx, no_grad_count, gcall>>
    /\ GradFrame

\* The caller writes autograd_ctx.retain_graph, an extern global.
SetRetainGraph(v) ==
    /\ GIdle
    /\ autograd_ctx' = [autograd_ctx EXCEPT !.retain_graph = v]
    /\ UNCHANGED <<nodes, storages, no_grad_count, error_handler, gcall>>
    /\ GradFrame

is_grad_enabled == autograd_ctx.is_training

PopToggles ==
    /\ GIdle
    /\ no_grad_count > 0
    /\ no_grad_count' = no_grad_count - 1
    /\ autograd_ctx' = [autograd_ctx EXCEPT !.is_training = 1]
    /\ gcall' = GCall("no_grad_pop", 0, 0)
    /\ UNCHANGED <<nodes, storages, error_handler>>
    /\ GradFrame

no_grad_push ==
    /\ GIdle
    /\ no_grad_count < MaxDepth
    /\ no_grad_count' = no_grad_count + 1
    /\ autograd_ctx' = IF no_grad_count + 1 = 1
                       THEN [autograd_ctx EXCEPT !.is_training = 0]
                       ELSE autograd_ctx
    /\ gcall' = GCall("no_grad_push", 0, 0)
    /\ UNCHANGED <<nodes, storages, error_handler>>
    /\ GradFrame

\* Called only inside a scope: never more pops than pushes.
no_grad_pop ==
    /\ GIdle
    /\ no_grad_count > 0
    /\ no_grad_count' = no_grad_count - 1
    /\ autograd_ctx' = IF no_grad_count - 1 = 0
                       THEN [autograd_ctx EXCEPT !.is_training = 1]
                       ELSE autograd_ctx
    /\ gcall' = GCall("no_grad_pop", 0, 0)
    /\ UNCHANGED <<nodes, storages, error_handler>>
    /\ GradFrame

\* The caller takes up the result of the last call; after exit(1) or a crash
\* there is no caller left.
GradReturn ==
    /\ gcall.op # "none"
    /\ ~gcall.exited /\ ~gcall.crashed
    /\ gcall' = GNoCall
    /\ UNCHANGED <<nodes, storages>>
    /\ CtxFrame /\ GradFrame

\* No-grad scopes are opened and closed, and the other field of the context
\* is written.
NoGradNext ==
    \/ no_grad_push
    \/ no_grad_pop
    \/ \E v \in {0, 1} : SetRetainGraph(v)
    \/ GradReturn

NoGradSpec == Init /\ [][NoGradNext]_vars

\* C12: from the initial state (enabled, depth 0), over push/pop sequences
\* that never pop more than was pushed, is_grad_enabled() is 0 exactly when
\* the nesting depth is above 0; gradients are disabled only by the push from
\* depth 0 to 1 and re-enabled only by the pop from depth 1 to 0.
C12_NoGradNesting ==
    /\ [](is_grad_enabled = 0 <=> no_grad_count > 0)
    /\ [][ /\ (is_grad_enabled = 1 /\ is_grad_enabled' = 0)
                => (no_grad_count = 0 /\ no_grad_count' = 1)
           /\ (is_grad_enabled = 0 /\ is_grad_enabled' = 1)
                => (no_grad_count = 1 /\ no_grad_count' = 0) ]_vars

\* An inner scope has just been closed and gradients are still disabled.
C12_Witness ==
    /\ gcall.op = "no_grad_pop"
    /\ no_grad_count = 1 /\ is_grad_enabled = 0
    /\ autograd_ctx.retain_graph = 1

\* ------------------------------------------------ forward operators, tensor.c
GFail(op, x, y) ==
    /\ gcall' = report_error(GCall(op, x, y))
    /\ UNCHANGED <<nodes, storages>>

SameDims(x, y) == nodes[x].dims = nodes[y].dims

\* parents[0] = result: the node made its own parent.
SetParentsSelf(result, x, y, op) ==
    [result EXCEPT !.requires_grad = 1, !.is_leaf = 0, !.op_name = op,
                   !.parents = <<Len(nodes) + 1, y>>, !.num_parents = 2]

\* set_parents(result, a, b, op_name): the tag is always written, the parents
\* only when the result requires grad.
set_parents(result, x, y, op) ==
    LET rg == IF nodes[x].requires_grad # 0 \/ nodes[y].requires_grad # 0
              THEN 1 ELSE 0
    IN [result EXCEPT !.requires_grad = rg, !.is_leaf = 0, !.op_name = op,
                      !.parents = IF rg # 0 THEN <<x, y>> ELSE @,
                      !.num_parents = IF rg # 0 THEN 2 ELSE @]

\* The common tail of the forward operators: result = tensor_create(dims,
\* NULL), its data filled with vals, then set_parents.
Forward(op, x, y, dims, vals) ==
    /\ Len(nodes) < MaxNodes
    /\ InRange(vals)
    /\ storages' = Append(storages,
                     [storage_create(Product(dims), <<>>) EXCEPT !.data = vals])
    /\ nodes' = Append(nodes,
                     set_parents(NewTensor(dims, Len(storages) + 1), x, y, op))
    /\ gcall' = [GCall(op, x, y) EXCEPT !.ret = Len(nodes) + 1]

Operands(x, y) == GIdle /\ InRange(DataOf(x)) /\ InRange(DataOf(y))

tensor_add(x, y) ==
    /\ Operands(x, y)
    /\ IF ~SameDims(x, y) THEN GFail("add", x, y)
       ELSE Forward("add", x, y, nodes[x].dims,
                    [j \in 1..SizeOf(x) |-> DataOf(x)[j] + DataOf(y)[j]])
    /\ CtxFrame /\ GradFrame

\* The index loop of tensor_sub: j runs from the last axis of a to the first.
RECURSIVE SubIndexLoop(_, _, _, _, _)
SubIndexLoop(j, b_index, temp, ad, bd) ==
    IF j < 0 THEN b_index
    ELSE IF j >= Len(ad) - Len(bd)
         THEN LET b_dim == bd[j - (Len(ad) - Len(bd)) + 1]
              IN IF b_dim = 1
                 THEN SubIndexLoop(j - 1, b_index, temp \div ad[j + 1], ad, bd)
                 ELSE SubIndexLoop(j - 1, b_index * b_dim + (temp % ad[j + 1]),
                                   temp \div ad[j + 1], ad, bd)
         ELSE SubIndexLoop(j - 1, b_index, temp, ad, bd)

\* b_index for element i (from 0) of the result of tensor_sub(x, y).
SubIndex(i, x, y) ==
    IF SizeOf(y) = 1 THEN 0
    ELSE IF SizeOf(y) < SizeOf(x)
         THEN SubIndexLoop(Len(nodes[x].dims) - 1, 0, i, nodes[x].dims, nodes[y].dims)
         ELSE i

\* The broadcasting test of tensor_sub.
SubCompatible(x, y) ==
    LET ad == nodes[x].dims
        bd == nodes[y].dims
    IN \A k \in 1..Len(bd) : bd[k] = 1 \/ bd[k] = ad[k + Len(ad) - Len(bd)]

\* tensor_sub(a, b); a read of b past its buffer delivers g.
tensor_sub(x, y, g) ==
    /\ Operands(x, y)
    /\ IF Len(nodes[x].dims) < Len(nodes[y].dims)
       THEN GFail("sub", x, y)
       ELSE IF ~SubCompatible(x, y)
       THEN GFail("sub", x, y)
       ELSE Forward("sub", x, y, nodes[x].dims,
                    [j \in 1..SizeOf(x) |->
                        DataOf(x)[j] - Slot(DataOf(y), SubIndex(j - 1, x, y), g)])
    /\ CtxFrame /\ GradFrame

tensor_mul(x, y) ==
    /\ Operands(x, y)
    /\ IF ~SameDims(x, y) THEN GFail("mul", x, y)
       ELSE Forward("mul", x, y, nodes[x].dims,
                    [j \in 1..SizeOf(x) |-> DataOf(x)[j] * DataOf(y)[j]])
    /\ CtxFrame /\ GradFrame

\* A float quotient that is no integer is outside the values modelled: the
\* operands of a division are those whose quotients are exact.  Division by
\* zero gives an infinity or a NaN, NonFinite here.
NonFinite == 99
Exact(p, q) ==
    \A j \in 1..Len(p) :
        IF q[j] = 0 THEN TRUE
        ELSE p[j] % (IF q[j] < 0 THEN -q[j] ELSE q[j]) = 0
Quot(p, q) == [j \in 1..Len(p) |-> IF q[j] = 0 THEN NonFinite ELSE p[j] \div q[j]]
HasZero(q) == \E j \in 1..Len(q) : q[j] = 0

\* tensor_div(a, b): on a zero divisor the result is freed again.
tensor_div(x, y) ==
    /\ Operands(x, y)
    /\ IF ~SameDims(x, y) THEN GFail("div", x, y)
       ELSE /\ Exact(DataOf(x), DataOf(y))
            /\ IF HasZero(DataOf(y)) THEN GFail("div", x, y)
               ELSE Forward("div", x, y, nodes[x].dims, Quot(DataOf(x), DataOf(y)))
    /\ CtxFrame /\ GradFrame

RECURSIVE SeqSum(_)
SeqSum(v) == IF v = <<>> THEN 0 ELSE Head(v) + SeqSum(Tail(v))

\* tensor_matmul(a, b): result[i * n + j] = sum over k_idx of
\* a[i * k + k_idx] * b[k_idx * n + j].
tensor_matmul(x, y) ==
    /\ Operands(x, y)
    /\ IF Len(nodes[x].dims) # 2 \/ Len(nodes[y].dims) # 2
       THEN GFail("matmul", x, y)
       ELSE IF nodes[x].dims[2] # nodes[y].dims[1]
       THEN GFail("matmul", x, y)
       ELSE LET m == nodes[x].dims[1]
                k == nodes[x].dims[2]
                n == nodes[y].dims[2]
            IN Forward("matmul", x, y, <<m, n>>,
                 [e \in 1..(m * n) |->
                    SeqSum([k_idx \in 1..k |->
                       DataOf(x)[((e - 1) \div n) * k + k_idx]
                       * DataOf(y)[(k_idx - 1) * n + ((e - 1) % n) + 1]])])
    /\ CtxFrame /\ GradFrame

\* The in-place operators tensor_add_, tensor_sub_, tensor_mul_, tensor_div_:
\* a's storage is overwritten; tensor_div_ reports a zero divisor after the
\* division is done.
InPlace(op, x, y, vals, err) ==
    /\ Operands(x, y)
    /\ IF ~SameDims(x, y) THEN GFail(op, x, y)
       ELSE /\ InRange(vals) \/ err
            /\ storages' = [storages EXCEPT ![nodes[x].storage].data = vals]
            /\ gcall' = IF err THEN report_error(GCall(op, x, y)) ELSE GCall(op, x, y)
            /\ UNCHANGED nodes
    /\ CtxFrame /\ GradFrame

tensor_add_(x, y) ==
    InPlace("add_", x, y, [j \in 1..SizeOf(x) |-> DataOf(x)[j] + DataOf(y)[j]], FALSE)
tensor_sub_(x, y) ==
    InPlace("sub_", x, y, [j \in 1..SizeOf(x) |-> DataOf(x)[j] - DataOf(y)[j]], FALSE)
tensor_mul_(x, y) ==
    InPlace("mul_", x, y, [j \in 1..SizeOf(x) |-> DataOf(x)[j] * DataOf(y)[j]], FALSE)
tensor_div_(x, y) ==
    /\ IF SameDims(x, y) THEN Exact(DataOf(x), DataOf(y)) ELSE TRUE
    /\ InPlace("div_", x, y, Quot(DataOf(x), DataOf(y)), HasZero(DataOf(y)))

\* tensor_clone(tensor): data, requires_grad, is_leaf, op_name and grad are
\* copied; parents and num_parents stay as tensor_create set them.
tensor_clone(t) ==
    /\ GIdle
    /\ Len(nodes) < MaxNodes
    /\ storages' = Append(storages, storage_create(SizeOf(t), DataOf(t)))
    /\ nodes' = Append(nodes,
                  [NewTensor(nodes[t].dims, Len(storages) + 1) EXCEPT
                      !.requires_grad = nodes[t].requires_grad,
                      !.is_leaf = nodes[t].is_leaf,
                      !.op_name = nodes[t].op_name,
                      !.grad = nodes[t].grad])
    /\ gcall' = [GCall("clone", t, 0) EXCEPT !.ret = Len(nodes) + 1]
    /\ CtxFrame /\ GradFrame

\* tensor_reshape(tensor, num_dims, new_dims) of tensor.c: the storage is
\* shared and its count raised.
legacy_tensor_reshape(t, new_dims) ==
    /\ GIdle
    /\ IF Product(new_dims) # SizeOf(t) THEN GFail("reshape", t, 0)
       ELSE /\ Len(nodes) < MaxNodes
            /\ storages' = [storages EXCEPT ![nodes[t].storage].ref_count = @ + 1]
            /\ nodes' = Append(nodes,
                          [NewTensor(new_dims, nodes[t].storage) EXCEPT
                              !.requires_grad = nodes[t].requires_grad,
                              !.is_leaf = nodes[t].is_leaf])
            /\ gcall' = [GCall("reshape", t, 0) EXCEPT !.ret = Len(nodes) + 1]
    /\ CtxFrame /\ GradFrame

\* tensor_view(tensor, num_dims, new_dims) of tensor.c returns what
\* tensor_reshape returns.
legacy_tensor_view(t, new_dims) == legacy_tensor_reshape(t, new_dims)

\* tensor_free(tensor) of tensor.c: grad, parents, dims and strides are freed,
\* storage_free drops the storage's count, and the struct is freed.
legacy_tensor_free(t) ==
    /\ GIdle
    /\ nodes' = [nodes EXCEPT ![t].grad = <<>>, ![t].parents = <<>>, ![t].freed = TRUE]
    /\ storages' = [storages EXCEPT ![nodes[t].storage] = storage_free(@)]
    /\ gcall' = GCall("free", t, 0)
    /\ CtxFrame /\ GradFrame

\* ---------------------------------------------- gradients, tensor.c/autograd.c
Ones(n) == [j \in 1..n |-> 1]

\* grad[i] += vals[i] for i below the size of node nd's storage, after the
\* lazy zero allocation; a read of vals past its end delivers g.
Accumulated(nd, size, vals, g) ==
    LET old == IF nd.grad = <<>> THEN Zeros(size) ELSE nd.grad
    IN [nd EXCEPT !.grad = [j \in 1..size |-> old[j] + Slot(vals, j - 1, g)]]

\* grad[i] = instead of grad[i] +=.
AccumulateOverwrites(t, u) ==
    /\ GIdle
    /\ SizeOf(t) = SizeOf(u)
    /\ gcall' = GCall("accumulate_grad", t, u)
    /\ nodes' = [nodes EXCEPT ![t].grad = DataOf(u)]
    /\ UNCHANGED storages
    /\ CtxFrame /\ GradFrame

\* accumulate_grad(tensor, grad) of tensor.c: nothing without requires_grad;
\* the grad buffer is allocated before the sizes are compared.
accumulate_grad(t, u) ==
    /\ GIdle
    /\ IF nodes[t].requires_grad = 0
       THEN /\ gcall' = GCall("accumulate_grad", t, u)
            /\ UNCHANGED nodes
       ELSE IF SizeOf(t) # SizeOf(u)
       THEN /\ gcall' = report_error(GCall("accumulate_grad", t, u))
            /\ nodes' = [nodes EXCEPT ![t].grad =
                            IF @ = <<>> THEN Zeros(SizeOf(t)) ELSE @]
       ELSE /\ gcall' = GCall("accumulate_grad", t, u)
            /\ nodes' = [nodes EXCEPT ![t] = Accumulated(@, SizeOf(t), DataOf(u), 0)]
            /\ InRange(nodes'[t].grad)
    /\ UNCHANGED storages
    /\ CtxFrame /\ GradFrame

\* accumulate_grad(tensor, grad) of autograd.c: no requires_grad test and no
\* size test; a grad tensor smaller than tensor is read past its end.
autograd_accumulate_grad(t, u, g) ==
    /\ GIdle
    /\ \/ /\ SizeOf(u) < SizeOf(t)
          /\ gcall' = [GCall("autograd_accumulate_grad", t, u) EXCEPT
                          !.ub = TRUE, !.crashed = TRUE]
          /\ UNCHANGED nodes
       \/ /\ gcall' = [GCall("autograd_accumulate_grad", t, u) EXCEPT
                          !.ub = (SizeOf(u) < SizeOf(t))]
          /\ nodes' = [nodes EXCEPT ![t] = Accumulated(@, SizeOf(t), DataOf(u), g)]
          /\ InRange(nodes'[t].grad)
    /\ UNCHANGED storages
    /\ CtxFrame /\ GradFrame

\* The caller stores a gradient in tensor->grad before calling backward.
SeedGrad(t, vals) ==
    /\ GIdle
    /\ nodes' = [nodes EXCEPT ![t].grad = vals]
    /\ UNCHANGED <<storages, gcall>>
    /\ CtxFrame /\ GradFrame

\* The fresh buffer is filled with ones.
SeededOnes(t) ==
    IF nodes[t].grad = <<>> THEN Ones(SizeOf(t)) ELSE nodes[t].grad

\* The gradient backward works with: the one present, or the fresh buffer
\* with index 0 set to 1.
Seeded(t) ==
    IF nodes[t].grad = <<>>
    THEN [j \in 1..SizeOf(t) |-> IF j = 1 THEN 1 ELSE 0]
    ELSE nodes[t].grad

Parent(t, i) == nodes[t].parents[i]
Other(t, i) == nodes[t].parents[IF i = 1 THEN 2 ELSE 1]

\* The parents the loop of backward does something for.
Qualifies(t, i) ==
    /\ i <= nodes[t].num_parents
    /\ nodes[Parent(t, i)].requires_grad # 0
    /\ nodes[t].op_name \in {"add", "mul", "matmul"}

\* The two triple loops of the matmul branch: the value stored at index e
\* (from 0) of the scratch tensor, for parent slot i.
MatmulGrad(t, i, e) ==
    LET pd == nodes[Parent(t, i)].dims
        td == nodes[t].dims
        od == nodes[Other(t, i)].dims
        odata == DataOf(Other(t, i))
        grad == Seeded(t)
        r == e \div pd[2]
        c == e % pd[2]
    IN IF i = 1
       THEN SeqSum([n \in 1..td[2] |->
                grad[r * td[2] + n] * odata[c * od[2] + n]])
       ELSE SeqSum([m \in 1..td[1] |->
                grad[(m - 1) * td[2] + c + 1] * odata[(m - 1) * od[2] + r + 1]])

\* The parent's own data is multiplied in, not the other parent's.
ScratchOwnData(t, i) ==
    [j \in 1..SizeOf(Parent(t, i)) |-> Seeded(t)[j] * DataOf(Parent(t, i))[j]]

\* The scratch tensor tensor_create(other->num_dims, other->dims, NULL) after
\* the loops have filled it; an index at or past its size is not in it.
ScratchData(t, i) ==
    LET n == SizeOf(Other(t, i))
    IN IF nodes[t].op_name = "mul"
       THEN [j \in 1..n |-> Seeded(t)[j] * DataOf(Other(t, i))[j]]
       ELSE [j \in 1..n |-> IF j <= SizeOf(Parent(t, i))
                            THEN MatmulGrad(t, i, j - 1) ELSE 0]

\* Slot i of the loop steps outside an object: the add branch passes the
\* float buffer tensor->grad where accumulate_grad reads a Tensor, and the
\* matmul branch writes and reads the scratch tensor at the parent's indices.
Undefined(t, i) ==
    \/ nodes[t].op_name = "add"
    \/ nodes[t].op_name = "matmul" /\ SizeOf(Parent(t, i)) > SizeOf(Other(t, i))

\* One turn of the loop on the node array ns; g is what an access outside an
\* object delivers.
BackwardStep(ns, t, i, g) ==
    IF ~Qualifies(t, i) THEN ns
    ELSE LET p == Parent(t, i)
         IN [ns EXCEPT ![p] =
               Accumulated(@, SizeOf(p),
                           IF nodes[t].op_name = "add" THEN <<>> ELSE ScratchData(t, i),
                           g)]

\* The scratch tensor of slot i and the parent differ in size: accumulate_grad
\* of tensor.c refuses them.
Mismatch(t, i) ==
    /\ Qualifies(t, i)
    /\ nodes[t].op_name \in {"mul", "matmul"}
    /\ SizeOf(Parent(t, i)) # SizeOf(Other(t, i))

\* One turn of the loop when accumulate_grad of tensor.c refuses the scratch
\* tensor: the parent's grad buffer has been allocated, nothing is added.
RefusedStep(ns, t, i, g) ==
    IF ~Mismatch(t, i) THEN BackwardStep(ns, t, i, g)
    ELSE [ns EXCEPT ![Parent(t, i)].grad =
             IF @ = <<>> THEN Zeros(SizeOf(Parent(t, i))) ELSE @]

\* The scratch tensors of a call, each allocated and freed again.
Scratches(t) ==
    IF nodes[t].op_name \in {"mul", "matmul"}
    THEN [i \in {k \in 1..2 : Qualifies(t, k)} |->
             storage_free(storage_create(SizeOf(Other(t, i)), <<>>))]
    ELSE <<>>

\* The grad buffer is freed whatever retain_graph says.
ReleaseAlways(ns, t) == [ns EXCEPT ![t].grad = <<>>]

\* The end of backward: the node's grad is freed unless retain_graph is set.
ReleaseGrad(ns, t) ==
    IF autograd_ctx.retain_graph = 0 THEN [ns EXCEPT ![t].grad = <<>>] ELSE ns

\* The element count of the scratch tensor of slot i,
\* tensor_create(other->num_dims, other->dims, NULL), and the indices of it the
\* matmul loops of slot i store to: row * parent->dims[1] + column.
ScratchSize(t, i) == Product(nodes[Other(t, i)].dims)
ScratchIndices(t, i) ==
    LET pd == nodes[Parent(t, i)].dims
    IN {r * pd[2] + c : r \in 0..(pd[1] - 1), c \in 0..(pd[2] - 1)}

\* The matmul loops of slot i store past the end of the scratch tensor.
Overflows(t, i) ==
    /\ Qualifies(t, i)
    /\ nodes[t].op_name = "matmul"
    /\ SizeOf(Parent(t, i)) > SizeOf(Other(t, i))

\* The storages when the heap behind the scratch tensor of slot i is the data
\* of storage s: its first element holds what the loops stored at the first
\* index past the scratch tensor.
Spilled(t, i, s) ==
    [storages EXCEPT ![s].data = [@ EXCEPT ![1] = MatmulGrad(t, i, SizeOf(Other(t, i)))]]

\* backward(tensor).  Where the loop steps outside an object the call crashes
\* or goes on with what it read, and a store past the scratch tensor lands
\* in nothing that is looked at again or in the data of a tensor; where the
\* scratch tensor and the parent differ in size, the accumulate_grad of
\* tensor.c, if that is the one linked, reports an error instead of
\* accumulating.
backward(t, g) ==
    /\ GIdle
    /\ IF nodes[t].requires_grad = 0
       THEN /\ gcall' = GCall("backward", t, 0)
            /\ UNCHANGED nodes
       ELSE LET seeded == [nodes EXCEPT ![t].grad = Seeded(t)]
                ub == \E i \in 1..2 : Qualifies(t, i) /\ Undefined(t, i)
                after == BackwardStep(BackwardStep(seeded, t, 1, g), t, 2, g)
                refused == RefusedStep(RefusedStep(seeded, t, 1, g), t, 2, g)
                errs == Cardinality({i \in 1..2 : Mismatch(t, i)})
            IN \/ /\ ub
                  /\ gcall' = [GCall("backward", t, 0) EXCEPT
                                  !.ub = TRUE, !.crashed = TRUE]
                  /\ UNCHANGED nodes
               \/ /\ \A n \in 1..Len(after) : InRange(after[n].grad)
                  /\ nodes' = ReleaseGrad(after, t)
                  /\ gcall' = [GCall("backward", t, 0) EXCEPT
                                  !.ub = ub, !.scratch = Scratches(t),
                                  !.ret = 1]
               \/ /\ errs > 0
                  /\ IF error_handler = "NULL"
                     THEN /\ gcall' = [report_error(GCall("backward", t, 0)) EXCEPT
                                          !.ub = ub]
                          /\ UNCHANGED nodes
                     ELSE /\ \A n \in 1..Len(refused) : InRange(refused[n].grad)
                          /\ nodes' = ReleaseGrad(refused, t)
                          /\ gcall' = [GCall("backward", t, 0) EXCEPT
                                          !.ub = ub, !.scratch = Scratches(t),
                                          !.err = errs, !.ret = 1]
    /\ \/ UNCHANGED storages
       \/ /\ nodes[t].requires_grad # 0
          /\ ~gcall'.crashed /\ ~gcall'.exited
          /\ \E i \in 1..2 : \E s \in 1..Len(storages) :
                /\ Overflows(t, i)
                /\ storages' = Spilled(t, i, s)
                /\ InRange(storages'[s].data)
    /\ CtxFrame /\ GradFrame

GNodeIds == 1..Len(nodes)

\* The shapes of one element, of one and of two dimensions.
GraphDims == {d \in LDims : Len(d) > 0 /\ Product(d) = 1}

\* Graph building: tensors are created, cloned, reshaped and flagged, and
\* combined by the forward operators.
GraphNext ==
    \/ \E d \in GraphDims : \E data \in LData(Product(d)) : legacy_tensor_create(d, data)
    \/ \E t \in GNodeIds : tensor_clone(t)
    \/ \E t \in GNodeIds : \E d \in GraphDims : legacy_tensor_reshape(t, d)
    \/ \E t \in GNodeIds : \E flag \in {0, 1} : set_requires_grad(t, flag)
    \/ \E x, y \in GNodeIds : tensor_add(x, y)
    \/ \E x, y \in GNodeIds : \E g \in Garbage : tensor_sub(x, y, g)
    \/ \E x, y \in GNodeIds : tensor_mul(x, y)
    \/ \E x, y \in GNodeIds : tensor_div(x, y)
    \/ \E x, y \in GNodeIds : tensor_matmul(x, y)
    \/ GradReturn

GraphSpec == Init /\ [][GraphNext]_vars

\* Forward and in-place operators on 1x1 operands that may require grad; an
\* in-place operator is applied with one tensor as both of its operands.
DagNext ==
    \/ /\ Len(nodes) < MaxOperands
       /\ \E data \in LData(1) : legacy_tensor_create(<<1, 1>>, data)
    \/ \E t \in GNodeIds : set_requires_grad(t, 1)
    \/ \E x, y \in GNodeIds : tensor_add(x, y)
    \/ \E x, y \in GNodeIds : \E g \in Garbage : tensor_sub(x, y, g)
    \/ \E x, y \in GNodeIds : tensor_mul(x, y)
    \/ \E x, y \in GNodeIds : tensor_div(x, y)
    \/ \E x, y \in GNodeIds : tensor_matmul(x, y)
    \/ \E x \in GNodeIds : tensor_add_(x, x)
    \/ \E x \in GNodeIds : tensor_sub_(x, x)
    \/ \E x \in GNodeIds : tensor_mul_(x, x)
    \/ \E x \in GNodeIds : tensor_div_(x, x)
    \/ GradReturn

DagSpec == Init /\ [][DagNext]_vars

\* Gradient accumulation: the operands are created and flagged, an error handler
\* is installed or removed, and gradients are accumulated by either
\* accumulate_grad.
AccNext ==
    \/ /\ Len(nodes) < MaxOperands
       /\ \E d \in LDims : \E data \in LData(Product(d)) : legacy_tensor_create(d, data)
    \/ \E t \in GNodeIds : \E flag \in {0, 1} : set_requires_grad(t, flag)
    \/ \E t, u \in GNodeIds : accumulate_grad(t, u)
    \/ \E t, u \in GNodeIds : \E g \in Garbage : autograd_accumulate_grad(t, u, g)
    \/ \E h \in {"NULL", "handler"} : set_error_handler(h)
    \/ GradReturn

AccSpec == Init /\ [][AccNext]_vars

\* -------------------------------------------- model files, utils.c / nn.c
MaxFeatures == 2
MaxRead == 4

\* "Linear" and its terminating 0, as strlen(name) + 1 bytes.
NameBytes == <<76, 105, 110, 101, 97, 114, 0>>

\* sizeof(model_type), the number of bytes load_model reads for the name.
NameField == 32

\* The four bytes of an int that is not negative, least significant first,
\* and the int four bytes stand for.
IntBytes(n) ==
    <<n % 256, (n \div 256) % 256, (n \div 65536) % 256, (n \div 16777216) % 256>>

BytesInt(b) ==
    b[1] + 256 * b[2] + 65536 * b[3]
    + 16777216 * (IF b[4] >= 128 THEN b[4] - 256 ELSE b[4])

\* The four bytes of a float32, least significant first, for the values the
\* model uses, and the value four bytes stand for; OtherFloat is every float
\* outside those values.
OtherFloat == 98
FloatBytes(v) ==
    CASE v = 0 -> <<0, 0, 0, 0>>
      [] v = 1 -> <<0, 0, 128, 63>>
      [] v = 2 -> <<0, 0, 0, 64>>
      [] v = -1 -> <<0, 0, 128, 191>>
      [] v = -2 -> <<0, 0, 0, 192>>

BytesFloat(b) ==
    IF \E v \in (-2)..2 : FloatBytes(v) = b
    THEN CHOOSE v \in (-2)..2 : FloatBytes(v) = b
    ELSE OtherFloat

RECURSIVE Flatten(_)
Flatten(ss) == IF ss = <<>> THEN <<>> ELSE Head(ss) \o Flatten(Tail(ss))

\* What save_model writes for one parameter: num_dims, dims, data.
ParamBytes(t) ==
    IntBytes(Len(nodes[t].dims))
    \o Flatten([i \in 1..Len(nodes[t].dims) |-> IntBytes(nodes[t].dims[i])])
    \o Flatten([i \in 1..SizeOf(t) |-> FloatBytes(DataOf(t)[i])])

\* nn_linear(in_features, out_features, 1): a weight of dims {out, in} holding
\* the values w drawn from rand(), and a zero bias of dims {out}, both
\* requiring grad.
LinearTensors(in_features, out_features, w) ==
    <<[NewTensor(<<out_features, in_features>>, Len(storages) + 1) EXCEPT
          !.requires_grad = 1, !.is_leaf = 0],
      [NewTensor(<<out_features>>, Len(storages) + 2) EXCEPT
          !.requires_grad = 1, !.is_leaf = 0]>>

LinearStorages(in_features, out_features, w) ==
    <<storage_create(out_features * in_features, w),
      storage_create(out_features, <<>>)>>

nn_linear(in_features, out_features, w) ==
    /\ GIdle
    /\ modules = <<>>
    /\ nodes' = nodes \o LinearTensors(in_features, out_features, w)
    /\ storages' = storages \o LinearStorages(in_features, out_features, w)
    /\ modules' = Append(modules, [weight |-> Len(nodes) + 1, bias |-> Len(nodes) + 2])
    /\ gcall' = [GCall("nn_linear", 0, 0) EXCEPT !.ret = Len(modules) + 1]
    /\ UNCHANGED disk
    /\ CtxFrame /\ UNCHANGED <<shapeVars, tensorVars>>

\* save_model(filename, model): the name with its 0, then every parameter.
save_model(m) ==
    /\ GIdle
    /\ disk' = NameBytes \o ParamBytes(modules[m].weight) \o ParamBytes(modules[m].bias)
    /\ gcall' = GCall("save_model", m, 0)
    /\ UNCHANGED <<nodes, storages, modules>>
    /\ CtxFrame /\ UNCHANGED <<shapeVars, tensorVars>>

\* fread of one int at byte position pos (from 0): the bytes when all four
\* are there, else what the uninitialized variable held, g.
ReadInt(pos, g) ==
    IF pos + 4 <= Len(disk) THEN BytesInt(SubSeq(disk, pos + 1, pos + 4)) ELSE g

\* fread of count ints or floats at pos into a fresh malloc'ed array: the
\* items that are in the file, then what the memory held.
ReadInts(pos, count, g) == [i \in 1..count |-> ReadInt(pos + 4 * (i - 1), g)]
ReadFloats(pos, count, g) ==
    [i \in 1..count |->
        IF pos + 4 * i <= Len(disk)
        THEN BytesFloat(SubSeq(disk, pos + 4 * (i - 1) + 1, pos + 4 * i))
        ELSE g]

\* The position after a read of n bytes at pos.
Advance(pos, n) == IF pos + n <= Len(disk) THEN pos + n ELSE Len(disk)

\* An element or dimension count the allocations of load_model are followed
\* for; a negative count is a request of more than the address space.
Readable(n) == 0 <= n /\ n <= MaxRead

\* The parameter loop of load_model for one parameter, read at pos: the
\* dimension count, the dims and the data, and the position after them.
LoadParam(pos, g) ==
    LET num_dims == ReadInt(pos, g)
        p1 == Advance(pos, 4)
        dims == IF Readable(num_dims) THEN ReadInts(p1, num_dims, g) ELSE <<>>
        p2 == Advance(p1, 4 * Len(dims))
        ok == Readable(num_dims) /\ \A j \in 1..Len(dims) : Readable(dims[j])
        size == IF ok THEN Product(dims) ELSE 0
        data == IF Readable(size) THEN ReadFloats(p2, size, g) ELSE <<>>
    IN [ok |-> ok /\ Readable(size), dims |-> dims, data |-> data,
        pos |-> Advance(p2, 4 * Len(data))]

\* load_model(filename): sizeof(model_type) bytes are read for the name, then
\* in_features and out_features, nn_linear makes the module and the parameter
\* loop replaces dims, num_dims, data and size of each parameter, not its
\* strides.  An allocation that is not Readable ends the process.
load_model(g) ==
    /\ GIdle
    /\ disk # <<>>
    /\ Len(modules) = 1
    /\ LET p0 == Advance(0, NameField)
           in_features == ReadInt(p0, g)
           out_features == ReadInt(Advance(p0, 4), g)
           p1 == Advance(Advance(p0, 4), 4)
           made == Readable(in_features) /\ Readable(out_features)
                   /\ Readable(in_features * out_features)
           w == LoadParam(p1, g)
           b == LoadParam(w.pos, g)
       IN IF SubSeq(disk, 1, Len(NameBytes)) # NameBytes
          THEN /\ gcall' = report_error(GCall("load_model", 0, 0))
               /\ UNCHANGED <<nodes, storages, modules>>
          ELSE IF ~(made /\ w.ok /\ b.ok)
          THEN /\ gcall' = [GCall("load_model", 0, 0) EXCEPT !.exited = TRUE]
               /\ UNCHANGED <<nodes, storages, modules>>
          ELSE LET fresh == LinearTensors(in_features, out_features, <<>>)
               IN /\ nodes' = nodes \o <<[fresh[1] EXCEPT !.dims = w.dims],
                                         [fresh[2] EXCEPT !.dims = b.dims]>>
                  /\ storages' = storages \o
                        <<[storage_create(Len(w.data), <<>>) EXCEPT !.data = w.data],
                          [storage_create(Len(b.data), <<>>) EXCEPT !.data = b.data]>>
                  /\ modules' = Append(modules, [weight |-> Len(nodes) + 1,
                                                 bias |-> Len(nodes) + 2])
                  /\ gcall' = [GCall("load_model", 0, 0) EXCEPT !.ret = Len(modules) + 1]
    /\ UNCHANGED disk
    /\ CtxFrame /\ UNCHANGED <<shapeVars, tensorVars>>

\* The values rand() gives the weights.
WeightVals(n) == [1..n -> 0..MaxVal]

\* A Linear module is made, saved and loaded again.
ModelNext ==
    \/ \E i, o \in 1..MaxFeatures : \E w \in WeightVals(i * o) : nn_linear(i, o, w)
    \/ \E m \in 1..Len(modules) : save_model(m)
    \/ \E g \in {0, 1, 2} \cup Garbage : load_model(g)
    \/ GradReturn

ModelSpec == Init /\ [][ModelNext]_vars

\* Validation failures of both tensor implementations, a program using one
\* of them: a tensor of the core is created and reshaped, permuted and
\* expanded with arguments of every kind, or operands of tensor.c are created
\* and combined; an error handler is installed or removed.
UsesCore == Len(nodes) = 0 /\ gcall.op = "none"
UsesLegacy == Len(tensors) = 0 /\ tcall.op = "none"

ErrNext ==
    \/ /\ UsesCore /\ Len(tensors) = 0
       /\ \E s \in CreatedShapes : tensor_from_data(s)
    \/ \E t \in 1..Len(tensors) : \E s \in CallerShapes : tensor_reshape(t, s)
    \/ \E t \in 1..Len(tensors) :
          \E axes \in AxisSeqs(Len(ShapeOf(t).dims)) : tensor_permute(t, axes)
    \/ \E t \in 1..Len(tensors) : \E s \in CreatedShapes : tensor_expand(t, s)
    \/ TensorReturn
    \/ /\ UsesLegacy /\ Len(nodes) < MaxOperands
       /\ \E d \in LDims : legacy_tensor_create(d, <<>>)
    \/ \E x, y \in GNodeIds : tensor_add(x, y)
    \/ \E x, y \in GNodeIds : tensor_matmul(x, y)
    \/ \E x, y \in GNodeIds : tensor_mul_(x, y)
    \/ \E h \in {"NULL", "handler"} : set_error_handler(h)
    \/ GradReturn

ErrSpec == Init /\ [][ErrNext]_vars

\* Division: operands with no, some or only zero elements are created, an
\* error handler is installed or removed, and they are divided.
DivNext ==
    \/ /\ Len(nodes) < MaxOperands
       /\ \E d \in LDims : \E data \in LData(Product(d)) \cup {Ramp(Product(d), 0)} :
             legacy_tensor_create(d, data)
    \/ \E h \in {"NULL", "handler"} : set_error_handler(h)
    \/ \E x, y \in GNodeIds : tensor_div(x, y)
    \/ \E x, y \in GNodeIds : tensor_div_(x, y)
    \/ GradReturn

DivSpec == Init /\ [][DivNext]_vars

\* The operands of the backward passes are matrices.
MatDims == {d \in LDims : Len(d) = 2}

\* Backward passes: the operands are created and flagged, tensors are
\* combined by the operators backward knows, the caller seeds the gradient of
\* a result and backward is called.
GradNext ==
    \/ /\ Len(nodes) < MaxOperands
       /\ \E d \in MatDims : \E data \in LData(Product(d)) : legacy_tensor_create(d, data)
    \/ \E t \in GNodeIds : set_requires_grad(t, 1)
    \/ \E x, y \in GNodeIds : tensor_add(x, y)
    \/ \E x, y \in GNodeIds : tensor_mul(x, y)
    \/ \E x, y \in GNodeIds : tensor_matmul(x, y)
    \/ \E t \in GNodeIds : nodes[t].op_name # "NULL" /\ SeedGrad(t, Ones(SizeOf(t)))
    \/ \E t \in GNodeIds : \E g \in Garbage : backward(t, g)
    \/ \E v \in {0, 1} : SetRetainGraph(v)
    \/ GradReturn

GradSpec == Init /\ [][GradNext]_vars

\* ------------------------------------------------------ claims on gradients
\* The step is a call of one of the operations named in ops.
CallOf(ops) == gcall.op = "none" /\ gcall'.op \in ops

\* The gradient of node t before a call, an absent one read as zeros.
OldGrad(t) == IF nodes[t].grad = <<>> THEN Zeros(SizeOf(t)) ELSE nodes[t].grad

AccOps == {"accumulate_grad", "autograd_accumulate_grad"}

\* C13 as stated: for any tensors t and g of equal element counts,
\* accumulate_grad(t, g) leaves t.grad[i] = old[i] + g[i], old being zeros
\* when t.grad was absent, and leaves t's data and g unchanged.
C13_Accumulate ==
    [][ (CallOf(AccOps) /\ SizeOf(gcall'.t) = SizeOf(gcall'.u))
        => /\ nodes'[gcall'.t].grad =
                 [j \in 1..SizeOf(gcall'.t) |->
                     OldGrad(gcall'.t)[j] + DataOf(gcall'.u)[j]]
           /\ storages' = storages ]_vars

\* C13 amended: the same for every t that has requires_grad set.
C13_AccumulateRequiresGrad ==
    [][ ( /\ CallOf(AccOps)
          /\ SizeOf(gcall'.t) = SizeOf(gcall'.u)
          /\ nodes[gcall'.t].requires_grad # 0 )
        => /\ nodes'[gcall'.t].grad =
                 [j \in 1..SizeOf(gcall'.t) |->
                     OldGrad(gcall'.t)[j] + DataOf(gcall'.u)[j]]
           /\ \A n \in 1..Len(nodes) :
                 n # gcall'.t => nodes'[n] = nodes[n]
           /\ storages' = storages ]_vars

\* A second accumulate_grad(t, g) has summed g twice into t.grad.
C13_Witness ==
    /\ gcall.op = "accumulate_grad"
    /\ gcall.t # gcall.u
    /\ nodes[gcall.t].requires_grad = 1
    /\ DataOf(gcall.u) = <<1>>
    /\ nodes[gcall.t].grad = <<2>>

\* C14: when g's element count differs from t's, accumulate_grad(t, g)
\* reports an error and leaves every field of t unchanged: t.grad stays absent
\* if it was, and no element of an existing t.grad changes.
C14_MismatchLeavesUnchanged ==
    [][ (CallOf(AccOps) /\ SizeOf(gcall'.t) # SizeOf(gcall'.u))
        => /\ gcall'.err = 1
           /\ ~gcall'.crashed
           /\ nodes'[gcall'.t] = nodes[gcall'.t] ]_vars

\* backward is called on node c, made by operator op from two parents that
\* both require grad, as c does.
BackwardOn(op) ==
    /\ CallOf({"backward"})
    /\ nodes[gcall'.t].op_name = op
    /\ nodes[gcall'.t].requires_grad # 0
    /\ nodes[gcall'.t].num_parents = 2
    /\ \A i \in 1..2 : nodes[Parent(gcall'.t, i)].requires_grad # 0

\* The sum of the contributions contrib[i] of the parent slots that hold
\* node p.
SlotSum(c, p, contrib, j) ==
    (IF Parent(c, 1) = p THEN contrib[1][j] ELSE 0)
    + (IF Parent(c, 2) = p THEN contrib[2][j] ELSE 0)

\* Every parent's gradient has grown by the contributions of its slots, and
\* the call returned.
ParentsGain(c, contrib) ==
    /\ ~gcall'.crashed
    /\ \A i \in 1..2 :
          LET p == Parent(c, i)
          IN nodes'[p].grad =
                [j \in 1..SizeOf(p) |-> OldGrad(p)[j] + SlotSum(c, p, contrib, j)]

\* C15: for c = tensor_add(a, b), a and b requiring grad, with c.grad set to
\* all ones, backward(c) adds c.grad, unchanged, to a.grad and to b.grad.
C15_AddBackward ==
    [][ (BackwardOn("add") /\ nodes[gcall'.t].grad = Ones(SizeOf(gcall'.t)))
        => ParentsGain(gcall'.t, <<nodes[gcall'.t].grad, nodes[gcall'.t].grad>>) ]_vars

\* C16: for c = tensor_mul(a, b), both parents requiring grad, backward(c)
\* adds c.grad[j] * b.data[j] to a.grad[j] and c.grad[j] * a.data[j] to
\* b.grad[j]; the scratch tensors are freed and no data changes.
C16_MulBackward ==
    [][ BackwardOn("mul")
        => LET c == gcall'.t
               cg == Seeded(c)
           IN /\ ParentsGain(c,
                    <<[j \in 1..SizeOf(c) |-> cg[j] * DataOf(Parent(c, 2))[j]],
                      [j \in 1..SizeOf(c) |-> cg[j] * DataOf(Parent(c, 1))[j]]>>)
              /\ DOMAIN gcall'.scratch = {1, 2}
              /\ \A i \in {1, 2} : gcall'.scratch[i].freed
              /\ storages' = storages ]_vars

\* backward has returned from c = a * b with c.grad all ones and a, b fresh:
\* a.grad holds b's data and b.grad holds a's data, which differ.
C16_Witness ==
    /\ gcall.op = "backward" /\ gcall.ret = 1
    /\ nodes[gcall.t].op_name = "mul"
    /\ nodes[gcall.t].num_parents = 2
    /\ Parent(gcall.t, 1) # Parent(gcall.t, 2)
    /\ DataOf(Parent(gcall.t, 1)) = <<1, 2>>
    /\ DataOf(Parent(gcall.t, 2)) = <<0, 0>>
    /\ nodes[Parent(gcall.t, 1)].grad = <<0, 0>>
    /\ nodes[Parent(gcall.t, 2)].grad = <<1, 2>>

\* dA[m,k] = sum over n of dC[m,n] * B[k,n], and dB[k,n] = sum over m of
\* dC[m,n] * A[m,k], in row-major order, for C = A @ B.
ClaimedGradA(c) ==
    LET A == Parent(c, 1)
        B == Parent(c, 2)
        K == nodes[A].dims[2]
        N == nodes[B].dims[2]
    IN [e \in 1..SizeOf(A) |->
          SeqSum([n \in 1..N |->
             Seeded(c)[((e - 1) \div K) * N + n] * DataOf(B)[((e - 1) % K) * N + n]])]

ClaimedGradB(c) ==
    LET A == Parent(c, 1)
        B == Parent(c, 2)
        M == nodes[A].dims[1]
        K == nodes[A].dims[2]
        N == nodes[B].dims[2]
    IN [e \in 1..SizeOf(B) |->
          SeqSum([m \in 1..M |->
             Seeded(c)[(m - 1) * N + ((e - 1) % N) + 1]
             * DataOf(A)[(m - 1) * K + ((e - 1) \div N) + 1]])]

\* C17: for C = tensor_matmul(A, B), A of shape MxK, B of shape KxN, all at
\* least 1, both requiring grad, backward(C) adds dC . B^T to A.grad and
\* A^T . dC to B.grad.
C17_MatmulBackward ==
    [][ BackwardOn("matmul")
        => ParentsGain(gcall'.t, <<ClaimedGradA(gcall'.t), ClaimedGradB(gcall'.t)>>) ]_vars

\* C18: when backward(root) returns for a root that requires grad, root.grad
\* is absent if retain_graph is 0 and is the gradient used for the
\* propagation if retain_graph is 1; no gradient of another node is freed.
C18_RetainGraph ==
    [][ ( /\ CallOf({"backward"})
          /\ ~gcall'.crashed /\ ~gcall'.exited
          /\ nodes[gcall'.t].requires_grad # 0 )
        => /\ autograd_ctx.retain_graph = 0 => nodes'[gcall'.t].grad = <<>>
           /\ autograd_ctx.retain_graph # 0 => nodes'[gcall'.t].grad = Seeded(gcall'.t)
           /\ \A n \in 1..Len(nodes) :
                 (n # gcall'.t /\ nodes[n].grad # <<>>) => nodes'[n].grad # <<>> ]_vars

\* backward has returned under retain_graph from a node with two parents, and
\* the node's gradient and a parent's are present.
C18_Witness ==
    /\ gcall.op = "backward" /\ gcall.ret = 1
    /\ autograd_ctx.retain_graph = 1
    /\ nodes[gcall.t].num_parents = 2
    /\ nodes[gcall.t].op_name = "mul"
    /\ nodes[gcall.t].grad # <<>>
    /\ nodes[Parent(gcall.t, 1)].grad # <<>>

\* ---------------------------------------------------- claims on the graph
\* C19: every tensor whose operator tag is set has exactly 2 parents and every
\* tensor without a tag has none, in every state reached by tensor_create,
\* tensor_clone, tensor_reshape, set_requires_grad and the forward operators.
C19_OpTagParents ==
    \A n \in GNodeIds :
        IF nodes[n].op_name # "NULL"
        THEN nodes[n].num_parents = 2
        ELSE nodes[n].num_parents = 0

\* The parents of node n, and what is reached from the set S through at most
\* k parent links.
ParentsOf(n) == {nodes[n].parents[i] : i \in 1..nodes[n].num_parents}

RECURSIVE Ancestors(_, _)
Ancestors(S, k) ==
    IF k = 0 THEN S
    ELSE Ancestors(S \cup UNION {ParentsOf(m) : m \in S}, k - 1)

\* C20: after any sequence of forward and in-place operators the parent
\* relation is acyclic: no tensor is reached from itself through parent links.
C20_Acyclic ==
    \A n \in GNodeIds : n \notin Ancestors(ParentsOf(n), MaxNodes)

\* An in-place operator has run on a graph where a result's parent is itself
\* a result with parents.
C20_Witness ==
    /\ gcall.op \in {"add_", "sub_", "mul_", "div_"}
    /\ \E n \in GNodeIds : \E p \in ParentsOf(n) :
          p # 0 /\ ParentsOf(p) # {}

\* ------------------------------------------------- claims on error handling
\* C21: with an error handler installed, tensor_div and tensor_div_ with a
\* divisor that has a zero element report failure, call the handler exactly
\* once, and leave the data of both operands unchanged.
C21_DivByZero ==
    [][ ( /\ CallOf({"div", "div_"})
          /\ error_handler # "NULL"
          /\ SameDims(gcall'.t, gcall'.u)
          /\ HasZero(DataOf(gcall'.u)) )
        => /\ gcall'.err = 1
           /\ gcall'.ret = 0
           /\ nodes' = nodes
           /\ storages'[nodes[gcall'.t].storage].data = DataOf(gcall'.t)
           /\ storages'[nodes[gcall'.u].storage].data = DataOf(gcall'.u) ]_vars

\* What report_error does for the call recorded in c, given the handler
\* installed when the call is made: the handler is invoked and the call
\* returns, or without a handler the process is ended.
Reported(c) ==
    IF error_handler # "NULL" THEN c.err >= 1 /\ ~c.exited ELSE c.exited

\* C22: every validation failure (a dimension or shape mismatch in an
\* arithmetic operator, an element-count mismatch or non-contiguous input in
\* reshape, an invalid permute axis, an incompatible expand) invokes the
\* installed error handler before the failure sentinel is returned, and ends
\* the process when no handler is installed.
C22_FailuresReported ==
    [][ /\ ( /\ tcall.op = "none"
             /\ tcall'.op \in {"reshape", "permute", "expand"}
             /\ tcall'.ret = 0 ) => Reported(tcall')
        /\ ( /\ CallOf({"add", "matmul", "mul_"})
             /\ \/ gcall'.op # "matmul" /\ ~SameDims(gcall'.t, gcall'.u)
                \/ gcall'.op = "matmul" /\ gcall'.ret = 0 ) => Reported(gcall') ]_vars

\* --------------------------------------------------- claims on model files
\* C23: for a Linear module, save_model followed by load_model of the written
\* file yields a module whose weight and bias have the same dimension counts,
\* dimension sizes and float32 values as the saved ones.
C23_SaveLoadRoundTrip ==
    (gcall.op = "load_model" /\ Len(modules) >= 1) =>
        /\ gcall.ret # 0
        /\ \A f \in {"weight", "bias"} :
              LET saved == modules[1][f]
                  loaded == modules[gcall.ret][f]
              IN /\ nodes[loaded].dims = nodes[saved].dims
                 /\ DataOf(loaded) = DataOf(saved)

\* ------------------------------------------------ claims on backward's seed
\* The gradient the claim says backward propagates from root.
ClaimedSeed(root) ==
    IF nodes[root].grad = <<>>
    THEN [j \in 1..SizeOf(root) |-> IF j = 1 THEN 1 ELSE 0]
    ELSE nodes[root].grad

\* C24: backward(root) on a root that requires grad and has no grad allocates
\* root.grad with root's element count, index 0 set to 1 and the rest to 0,
\* before propagating; a grad already present is used as it is.  What is
\* propagated is seen in root.grad under retain_graph and in what the parents
\* of a mul node receive.
C24_Seed ==
    [][ ( /\ CallOf({"backward"})
          /\ ~gcall'.crashed /\ ~gcall'.exited
          /\ nodes[gcall'.t].requires_grad # 0 )
        => LET root == gcall'.t
               seed == ClaimedSeed(root)
           IN /\ autograd_ctx.retain_graph # 0 => nodes'[root].grad = seed
              /\ BackwardOn("mul") =>
                    ParentsGain(root,
                       <<[j \in 1..SizeOf(root) |-> seed[j] * DataOf(Parent(root, 2))[j]],
                         [j \in 1..SizeOf(root) |-> seed[j] * DataOf(Parent(root, 1))[j]]>>) ]_vars

\* backward has returned under retain_graph from a mul node of two elements
\* that had no grad: its grad is 1, 0 and the first parent received 1, 0 times
\* the other parent's data 1, 2.
C24_Witness ==
    /\ gcall.op = "backward" /\ gcall.ret = 1
    /\ autograd_ctx.retain_graph = 1
    /\ nodes[gcall.t].op_name = "mul"
    /\ nodes[gcall.t].num_parents = 2
    /\ nodes[gcall.t].grad = <<1, 0>>
    /\ DataOf(Parent(gcall.t, 2)) = <<1, 2>>
    /\ nodes[Parent(gcall.t, 1)].grad = <<1, 0>>

\* The parents of root that backward accumulates into.
GradParents(root) ==
    {Parent(root, i) : i \in {k \in 1..nodes[root].num_parents :
                                 nodes[Parent(root, k)].requires_grad # 0}}

\* C25: backward(root) changes the grad of root and of root's immediate
\* parents that require grad and nothing else: every other grad, and the
\* data, dims, parents and op tag of every tensor are unchanged, and nothing
\* changes at all when root does not require grad.
C25_BackwardFrame ==
    [][ (CallOf({"backward"}) /\ ~gcall'.crashed /\ ~gcall'.exited)
        => LET root == gcall'.t
           IN /\ storages' = storages
              /\ \A n \in 1..Len(nodes) :
                    IF nodes[root].requires_grad # 0
                       /\ n \in {root} \cup GradParents(root)
                    THEN nodes'[n] = [nodes[n] EXCEPT !.grad = nodes'[n].grad]
                    ELSE nodes'[n] = nodes[n] ]_vars

\* C26: when both parent slots of c = tensor_add(a, a) hold the same leaf a
\* that requires grad, backward(c) accumulates slot 0 and then slot 1, and
\* a.grad ends as old + 2 * c.grad.
C26_SameParentTwice ==
    [][ (BackwardOn("add") /\ Parent(gcall'.t, 1) = Parent(gcall'.t, 2))
        => LET c == gcall'.t
               leaf == Parent(c, 1)
           IN /\ ~gcall'.crashed
              /\ nodes'[leaf].grad =
                    [j \in 1..SizeOf(leaf) |-> OldGrad(leaf)[j] + 2 * Seeded(c)[j]] ]_vars

\* C28: in the matmul branch of backward every index written into the scratch
\* tensor is below the scratch tensor's element count, and the scratch tensor
\* has the element count of the parent it is accumulated into, for all
\* M, K, N >= 1.
C28_ScratchInBounds ==
    [][ ( /\ CallOf({"backward"})
          /\ nodes[gcall'.t].requires_grad # 0
          /\ nodes[gcall'.t].op_name = "matmul" )
        => \A i \in 1..2 :
              Qualifies(gcall'.t, i) =>
                 /\ \A e \in ScratchIndices(gcall'.t, i) : e < ScratchSize(gcall'.t, i)
                 /\ ScratchSize(gcall'.t, i) = SizeOf(Parent(gcall'.t, i)) ]_vars

\* ------------------------------------------------------- claims on views
\* C27: for every view obtained from an owning tensor of n elements by
\* tensor_permute, tensor_expand and tensor_reshape calls, every coordinate
\* vector with 0 <= coords[i] < dims[i] maps through the sum of
\* coords[i] * strides[i] to an offset in [0, n), also when the view has more
\* than n logical elements; so does the address tensor_get_element_ptr
\* returns for such coordinates.
C27_ViewOffsetsInBuffer ==
    /\ \A t \in TensorIds :
          \A c \in Coords(ShapeOf(t).dims) :
             /\ 0 <= Offset(c, ShapeOf(t).strides)
             /\ Offset(c, ShapeOf(t).strides) < Len(BufOf(t).mem)
    /\ (tcall.op = "element_ptr" /\ InRangeCoords(tcall.t, tcall.coords)) =>
          /\ tcall.ptr.base = tensors[tcall.t].data
          /\ 0 <= tcall.ptr.off
          /\ tcall.ptr.off < Len(BufOf(tcall.t).mem)

\* The last element of an expanded view of a reshaped view is addressed, the
\* view having more logical elements than the buffer holds.
C27_Witness ==
    /\ tcall.op = "element_ptr"
    /\ tensors[tcall.t].op = "expand"
    /\ tensors[tensors[tcall.t].src].op = "reshape"
    /\ tensor_get_elements_count(tcall.t) > Len(BufOf(tcall.t).mem)
    /\ \A i \in 1..Len(tcall.coords) : tcall.coords[i] = ShapeOf(tcall.t).dims[i] - 1
    /\ tcall.ptr.off > 0

\* ------------------------------------------------ claims on shared storages
LiveNodes == {t \in GNodeIds : ~nodes[t].freed}

\* Tensors are created, live tensors are viewed (views of views included) and
\* freed, each once.
RefNext ==
    \/ \E d \in LDims : \E data \in LData(Product(d)) : legacy_tensor_create(d, data)
    \/ \E t \in LiveNodes : \E d \in LDims : legacy_tensor_view(t, d)
    \/ \E t \in LiveNodes : legacy_tensor_free(t)
    \/ \E h \in {"NULL", "handler"} : set_error_handler(h)
    \/ GradReturn

RefSpec == Init /\ [][RefNext]_vars

Referrers(s) == {t \in LiveNodes : nodes[t].storage = s}

\* C29: in the reference-counted variant, after any sequence of tensor_create,
\* tensor_reshape/tensor_view (also of views) and tensor_free (each tensor
\* freed once at most), a storage's ref_count is the number of live tensors
\* referencing it, and the storage and its data are released exactly when no
\* live tensor references them any more.
C29_RefCount ==
    \A s \in 1..Len(storages) :
       /\ storages[s].freed <=> Referrers(s) = {}
       /\ ~storages[s].freed => storages[s].ref_count = Cardinality(Referrers(s))

\* The creator of a storage and a view of it have been freed, a view of that
\* view is alive and holds the storage alone; another storage went with its
\* only tensor.
C29_Witness ==
    /\ gcall.op = "free"
    /\ Len(nodes) = 3
    /\ nodes[1].freed /\ nodes[2].freed /\ ~nodes[3].freed
    /\ nodes[2].storage = 1 /\ nodes[3].storage = 1
    /\ nodes[3].dims # nodes[1].dims
    /\ storages[1].ref_count = 1
    /\ ~storages[1].freed

\* ------------------------------------------------ claims on broadcasting
\* The dims of the operands of a broadcast subtraction: up to three axes.
SubDims == {<<2, 2, 3>>, <<2, 2, 2>>, <<2, 3>>, <<2, 2>>, <<1, 3>>, <<2, 1>>,
            <<3>>, <<2>>, <<1>>}

\* The caller's data array: 0, 1, 2, 0, 1, ... .
Cycle(n) == [j \in 1..n |-> (j - 1) % 3]

\* Two operands are created, with data or zeroed, and subtracted.
SubNext ==
    \/ /\ Len(nodes) < MaxOperands
       /\ \E d \in SubDims : \E data \in {<<>>, Cycle(Product(d))} :
             legacy_tensor_create(d, data)
    \/ \E h \in {"NULL", "handler"} : set_error_handler(h)
    \/ \E x, y \in GNodeIds : \E g \in Garbage : tensor_sub(x, y, g)
    \/ GradReturn

SubSpec == Init /\ [][SubNext]_vars

\* The coordinate on axis k (from 1) of element i (from 0) of a row-major
\* tensor of dims ad.
CoordOf(i, ad, k) == (i \div RowMajorStrides(ad)[k]) % ad[k]

\* Right-aligned broadcasting: the element of b, of dims bd, that belongs to
\* element i of a, of dims ad; coordinate 0 on the axes of b of size 1.
RightAligned(i, ad, bd) ==
    SeqSum([k \in 1..Len(bd) |->
              IF bd[k] = 1 THEN 0
              ELSE CoordOf(i, ad, k + Len(ad) - Len(bd)) * RowMajorStrides(bd)[k]])

\* C30: for tensor_sub(a, b) with b of at most a's number of dimensions and
\* every right-aligned dimension of b 1 or equal to a's, the result has a's
\* dims, result[c] = a[c] - b[c'] with c' the coordinate c restricted to b's
\* trailing axes and 0 on b's axes of size 1, and every index used to read b
\* is inside b's buffer.
C30_SubBroadcast ==
    [][\A x, y \in GNodeIds :
          (/\ CallOf({"sub"})
           /\ gcall'.t = x /\ gcall'.u = y
           /\ Len(nodes[y].dims) <= Len(nodes[x].dims)
           /\ SubCompatible(x, y))
          => /\ gcall'.ret # 0
             /\ nodes'[gcall'.ret].dims = nodes[x].dims
             /\ \A i \in 0..(SizeOf(x) - 1) :
                   /\ SubIndex(i, x, y) < SizeOf(y)
                   /\ storages'[nodes'[gcall'.ret].storage].data[i + 1]
                        = DataOf(x)[i + 1]
                          - DataOf(y)[RightAligned(i, nodes[x].dims, nodes[y].dims) + 1]]_vars

====
